---- MODULE Spec2Model ----
(***************************************************************************)
(* DreamWeaver: the per-world lock registry and the request handlers of    *)
(* flask_app.py, the turn pipeline of DreamWeaverOrchestrator and the      *)
(* world store of services/storage.py.                                     *)
(*                                                                         *)
(* Floats in [0,1] (metrics, stats, loyalty) are fixed-point tenths:       *)
(* One = 1.0.  A JSON object is a function from keys to values; a JSON     *)
(* scalar handed to float()/int() is a record [tag, v] with tag "num"      *)
(* (the conversion succeeds with value v) or "bad" (the conversion raises).*)
(***************************************************************************)
EXTENDS Integers, Sequences, FiniteSets, TLC

VARIABLES
    store,         \* storage/<world_id>.json: the persisted snapshot per world id
    world_locks,   \* flask_app._world_locks: world id -> lock object (or NoLock)
    lock_owner,    \* every threading.Lock created so far -> the thread holding it, or Free
    now,           \* time.time()
    pc,            \* per request thread: position in its handler
    req,           \* per request thread: the request being served
    lock,          \* per request thread: the local `lock` of the handler
    ws,            \* per request thread: the local world_state / ws object
    actions,       \* per request thread: the parsed action list of the turn
    num_ticks,     \* per request thread: num_ticks of _update_world
    notes,         \* per request thread: talk_snippets / notifications of the turn
    calls,         \* per request thread: collaborator calls made by the request, in order
    stages,        \* per request thread: pipeline stages executed by the request, in order
    saves,         \* per request thread: number of save_world calls of the request
    base,          \* per request thread: the snapshot as load_world returned it
    pre,           \* per request thread: world_state as it was before the last stage run
    out,           \* per request thread: the response of the last finished request
    served         \* number of requests the server has accepted so far

vars == <<store, world_locks, lock_owner, now, pc, req, lock, ws, actions,
          num_ticks, notes, calls, stages, saves, base, pre, out, served>>

shared == <<store, world_locks, lock_owner, now, served>>

(***************************************************************************)
(* Bounds of the model                                                     *)
(***************************************************************************)
Threads == {"t1", "t2"}
Worlds  == {"w1", "w2"}
Users   == {"u1", "u2"}

MaxTick     == 2    \* turns are not started on a world whose tick reached this
MaxClock    == 3    \* number of clock steps
MaxChat     == 1    \* chat appends are not started on a log of this length
MaxRequests == 3    \* number of requests the server accepts

(***************************************************************************)
(* Program constants                                                       *)
(***************************************************************************)
SESSION_TIMEOUT_SECONDS == 600
ClockStep   == 300  \* seconds per clock step of the model
One         == 10   \* 1.0 in tenths
Half        == 5    \* 0.5, the default of a player stat
HistoryCap  == 50
ChatCap     == 200
StoryCap    == 100

NoLock == <<>>
Free   == "free"

(***************************************************************************)
(* Python helpers                                                          *)
(***************************************************************************)
Max(a, b) == IF a >= b THEN a ELSE b
Min(a, b) == IF a <= b THEN a ELSE b

\* dict.get(key, default)
Get(obj, key, default) == IF key \in DOMAIN obj THEN obj[key] ELSE default

\* d[key] = value
Put(d, key, value) ==
    [k \in (DOMAIN d) \cup {key} |-> IF k = key THEN value ELSE d[k]]

\* del d[key] for every key in keys
DelAll(d, keys) == [k \in (DOMAIN d) \ keys |-> d[k]]

\* lst[-n:]
LastN(lst, n) ==
    IF Len(lst) <= n THEN lst ELSE SubSeq(lst, Len(lst) - n + 1, Len(lst))

Num(n) == [tag |-> "num", v |-> n]
Bad    == [tag |-> "bad", v |-> 0]

\* max(0.0, min(1.0, x))
Clamp01(x) == Max(0, Min(One, x))

EmptyObj == [k \in {} |-> 0]

(***************************************************************************)
(* world/models.py                                                         *)
(***************************************************************************)
None == ""          \* Python None; the code only tests these values for truthiness

MetricNames == {"world_health", "chaos_level", "magic_level", "alliance_tension"}

\* WorldMetrics(): 0.7, 0.3, 0.4, 0.2
WorldMetrics ==
    [world_health |-> 7, chaos_level |-> 3, magic_level |-> 4, alliance_tension |-> 2]

\* f"{user_id}_char"
CharacterId(u) == IF u = "u1" THEN "u1_char" ELSE IF u = "u2" THEN "u2_char" ELSE "x_char"

\* PlayerState(user_id, character_id, name, char_class, location_region_id)
PlayerState(u, region) ==
    [user_id |-> u, character_id |-> CharacterId(u), name |-> u,
     location_region_id |-> region,
     stats |-> [n \in {"courage", "empathy", "cunning"} |-> Half]]

\* Action(type, target_region_id, target_character_id, params)
Action(type, region, character, params) ==
    [type |-> type, target_region_id |-> region,
     target_character_id |-> character, params |-> params]

\* last_scene_text = None; the "" of `last_scene_text or ""`; the text of
\* get_state_view for a world without snapshot
NoText        == [kind |-> "none"]
EmptyText     == [kind |-> "empty"]
NotExistText  == [kind |-> "does_not_exist_yet"]

\* what load_world returns for a world id without a file
NoWorld == [world_id |-> None]

(***************************************************************************)
(* world/serializers.py, services/storage.py                               *)
(***************************************************************************)
\* asdict(ws)
world_state_to_dict(w) == w

\* WorldState(...) rebuilt from a dict, defaults for the fields an older
\* snapshot lacks
world_state_from_dict(data) ==
    [world_id          |-> data["world_id"],
     tick              |-> Get(data, "tick", 0),
     regions           |-> Get(data, "regions", <<>>),
     characters        |-> Get(data, "characters", EmptyObj),
     players           |-> Get(data, "players", EmptyObj),
     quests            |-> Get(data, "quests", EmptyObj),
     metrics           |-> Get(data, "metrics", WorldMetrics),
     history_summaries |-> Get(data, "history_summaries", <<>>),
     last_events       |-> Get(data, "last_events", <<>>),
     active_players    |-> Get(data, "active_players", EmptyObj),
     last_scene_text   |-> Get(data, "last_scene_text", NoText),
     chat_log          |-> Get(data, "chat_log", <<>>),
     story_log         |-> Get(data, "story_log", <<>>),
     is_open           |-> Get(data, "is_open", TRUE)]

NoFile == [exists |-> FALSE]

\* load_world(world_id) against the files `files`
load_world(files, w) ==
    IF files[w].exists THEN world_state_from_dict(files[w].data) ELSE NoWorld

\* save_world(world_state): the files after the write
save_world(files, w) ==
    [files EXCEPT ![w.world_id] = [exists |-> TRUE, data |-> world_state_to_dict(w)]]

(***************************************************************************)
(* agents/orchestrator.py: pure helpers                                    *)
(***************************************************************************)
\* variant: an entry is removed as soon as its age reaches the timeout
prune_to_remove_at_timeout(w, t) ==
    {u \in DOMAIN w.active_players :
        \/ w.active_players[u].tag = "bad"
        \/ t - w.active_players[u].v >= SESSION_TIMEOUT_SECONDS}

\* _prune_inactive_players(world_state) at time t
prune_to_remove(w, t) ==
    {u \in DOMAIN w.active_players :
        \/ w.active_players[u].tag = "bad"
        \/ t - w.active_players[u].v > SESSION_TIMEOUT_SECONDS}

prune_inactive_players(w, t) ==
    LET kept == DelAll(w.active_players, prune_to_remove(w, t))
    IN  [w EXCEPT !.active_players = kept,
                  !.is_open = IF DOMAIN kept = {} THEN FALSE ELSE @]

\* variant: the deltas are added to the stats without clamping
apply_stat_changes_no_clamp(stats, deltas) ==
    [n \in (DOMAIN stats) \cup (DOMAIN deltas) |->
        IF n \notin DOMAIN deltas THEN stats[n]
        ELSE LET old == Get(stats, n, Half)
             IN  IF deltas[n].tag = "num" THEN old + deltas[n].v ELSE old]

\* _apply_stat_changes(player, deltas) on the stats dict
apply_stat_changes(stats, deltas) ==
    [n \in (DOMAIN stats) \cup (DOMAIN deltas) |->
        IF n \notin DOMAIN deltas THEN stats[n]
        ELSE LET old == Get(stats, n, Half)
             IN  IF deltas[n].tag = "num" THEN Clamp01(old + deltas[n].v) ELSE old]

\* _parse_actions(ci_result)
parse_action(a) ==
    Action(Get(a, "type", "WAIT"), Get(a, "target_region_id", None),
           Get(a, "target_character_id", None), Get(a, "params", EmptyObj))

\* variant: no WAIT is synthesized for an empty action list
parse_actions_no_wait(ci_result) ==
    LET raw == Get(ci_result, "actions", <<>>)
    IN  [i \in 1..Len(raw) |-> parse_action(raw[i])]

parse_actions(ci_result) ==
    LET raw == Get(ci_result, "actions", <<>>)
        acts == [i \in 1..Len(raw) |-> parse_action(raw[i])]
    IN  IF acts = <<>> THEN <<Action("WAIT", None, None, EmptyObj)>> ELSE acts

RECURSIVE dict_keys(_)
\* the keys of a dict filled by d[x] = ... for x in ids, in insertion order
dict_keys(ids) ==
    IF ids = <<>> THEN <<>>
    ELSE LET front == dict_keys(SubSeq(ids, 1, Len(ids) - 1))
             x     == ids[Len(ids)]
         IN  IF \E i \in 1..Len(front) : front[i] = x THEN front ELSE Append(front, x)

\* variant: the fallback seeds two regions
regions_list_two_fallbacks(wa_result) ==
    IF Get(wa_result, "regions", <<>>) = <<>>
    THEN <<[id |-> "glass_whale_bay", type |-> "bay"], [id |-> "mist_marsh"]>>
    ELSE wa_result["regions"]

\* the fallback region list of _load_or_init_world_state
FallbackRegions == <<[id |-> "glass_whale_bay", type |-> "bay"]>>

regions_list(wa_result) ==
    IF Get(wa_result, "regions", <<>>) = <<>> THEN FallbackRegions
    ELSE wa_result["regions"]

\* the ids the collaborators' instructions reserve for the main quest chain,
\* in chain order
MainArcIds == <<"main_1", "main_2", "main_3">>

\* variant: an entry whose main-arc id would leave a gap in the chain is
\* rejected
quests_from_list_no_gap(lst) ==
    LET withId == {j \in 1..Len(lst) : "id" \in DOMAIN lst[j]}
        all == {lst[i]["id"] : i \in withId}
        ids == {q \in all :
                   \A n \in 1..Len(MainArcIds) :
                       q = MainArcIds[n] => \A m \in 1..(n-1) : MainArcIds[m] \in all}
        last(qid) == CHOOSE i \in withId :
                        /\ lst[i]["id"] = qid
                        /\ \A j \in withId : j > i => lst[j]["id"] # qid
    IN  [qid \in ids |-> [status |-> Get(lst[last(qid)], "status", "open")]]

\* the dict built from a collaborator's quest list: entries without "id" are
\* skipped (try/except: continue), a repeated id keeps the last entry
quests_from_list(lst) ==
    LET ids == {lst[i]["id"] : i \in {j \in 1..Len(lst) : "id" \in DOMAIN lst[j]}}
        last(qid) == CHOOSE i \in 1..Len(lst) :
                        /\ "id" \in DOMAIN lst[i] /\ lst[i]["id"] = qid
                        /\ \A j \in (i+1)..Len(lst) :
                              ~("id" \in DOMAIN lst[j] /\ lst[j]["id"] = qid)
    IN  [qid \in ids |-> [status |-> Get(lst[last(qid)], "status", "open")]]

\* the dict built from starter_characters (every entry has an id and a
\* numeric loyalty, see init_world_raises)
characters_from_list(lst, first_region_id) ==
    LET ids == {lst[i]["id"] : i \in 1..Len(lst)}
        last(cid) == CHOOSE i \in 1..Len(lst) :
                        /\ lst[i]["id"] = cid
                        /\ \A j \in (i+1)..Len(lst) : lst[j]["id"] # cid
    IN  [cid \in ids |->
            [mood |-> Get(lst[last(cid)], "mood", "neutral"),
             loyalty |-> Get(lst[last(cid)], "loyalty", Num(Half)).v,
             location_region_id |->
                 Get(lst[last(cid)], "location_region_id", first_region_id)]]

\* _load_or_init_world_state, the branch `ws is None`: r["id"], c["id"] and
\* float(c.get("loyalty")) are outside any try
init_world_raises(wa_result) ==
    LET rl == regions_list(wa_result)
        cl == Get(wa_result, "starter_characters", <<>>)
    IN  \/ \E i \in 1..Len(rl) : "id" \notin DOMAIN rl[i]
        \/ \E i \in 1..Len(cl) : "id" \notin DOMAIN cl[i]
        \/ \E i \in 1..Len(cl) : Get(cl[i], "loyalty", Num(Half)).tag = "bad"

init_world(world_id, wa_result) ==
    LET rl == regions_list(wa_result)
    IN  [world_id          |-> world_id,
         tick              |-> 0,
         regions           |-> dict_keys([i \in 1..Len(rl) |-> rl[i]["id"]]),
         characters        |-> characters_from_list(
                                  Get(wa_result, "starter_characters", <<>>), rl[1]["id"]),
         players           |-> EmptyObj,
         quests            |-> quests_from_list(Get(wa_result, "starter_quests", <<>>)),
         metrics           |-> WorldMetrics,
         history_summaries |-> Get(wa_result, "history_notes", <<>>),
         last_events       |-> <<>>,
         active_players    |-> EmptyObj,
         last_scene_text   |-> NoText,
         chat_log          |-> <<>>,
         story_log         |-> <<>>,
         is_open           |-> FALSE]

\* variant: no player record is created for a new user
ensure_player_skip(w, user_id) == w

\* variant: a new player starts in the fallback region, whatever regions the
\* world has
ensure_player_fallback_region(w, user_id) ==
    IF user_id \in DOMAIN w.players THEN w
    ELSE [w EXCEPT !.players =
             Put(@, user_id, PlayerState(user_id, FallbackRegions[1]["id"]))]

\* _load_or_init_world_state, "Ensure player exists"
ensure_player(w, user_id) ==
    IF user_id \in DOMAIN w.players THEN w
    ELSE [w EXCEPT !.players = Put(@, user_id, PlayerState(user_id, w.regions[1]))]

\* variant: the user is marked active but the world is not reopened
touch_stamp_only(w, user_id, t) ==
    [w EXCEPT !.active_players = Put(@, user_id, Num(t))]

\* handle_turn / apply_action_only: prune, mark the user active, log the command
touch(w, user_id, t) ==
    [w EXCEPT !.active_players = Put(@, user_id, Num(t)), !.is_open = TRUE]

log_command(w, user_id, message) ==
    [w EXCEPT !.history_summaries = LastN(Append(@, <<user_id, message>>), HistoryCap)]

(***************************************************************************)
(* _update_world, part 1: the action loop (Resolve)                        *)
(***************************************************************************)
\* variant: num_ticks = days, without max(1, days)
fast_forward_ticks_no_floor(params) ==
    LET d == Get(params, "days", Num(1))
    IN  IF d.tag = "num" THEN d.v ELSE 1

\* FAST_FORWARD: int(action.params.get("days", 1)), 1 on any exception,
\* then max(1, days)
fast_forward_ticks(params) ==
    LET d    == Get(params, "days", Num(1))
        days == IF d.tag = "num" THEN d.v ELSE 1
    IN  Max(1, days)

\* the players whose character_id, name or user_id equals the TALK target;
\* the three identifiers of distinct players are distinct, so the loop's
\* first match is the only match
talk_target_players(w, target) ==
    {u \in DOMAIN w.players :
        target \in {w.players[u].character_id, w.players[u].name, w.players[u].user_id}}

\* variant: a player is addressed through the dialogue collaborator
talk_player_puppet(r, user_id, a) ==
    [r EXCEPT !.calls = Append(@, [agent |-> "dialogue_weaver", result |-> EmptyObj])]

\* TALK aimed at a player: a notice, and the utterance mirrored into chat_log
talk_player(r, user_id, a) ==
    LET w       == r.w
        tu      == CHOOSE u \in talk_target_players(w, a.target_character_id) : TRUE
        snippet == IF tu \in DOMAIN w.active_players
                   THEN <<"can_respond", w.players[tu].name>>
                   ELSE <<"not_around", w.players[tu].name>>
        line    == Get(a.params, "utterance", None)
        chat    == IF line # None
                   THEN LastN(Append(w.chat_log,
                           <<w.players[user_id].name, w.players[tu].name, line>>), ChatCap)
                   ELSE w.chat_log
    IN  [r EXCEPT !.w.chat_log = chat, !.snippets = Append(@, snippet)]

\* TALK resolved as NPC dialogue with the dialogue collaborator's dw_result
talk_npc(r, user_id, a, dw_result) ==
    LET w       == r.w
        target  == a.target_character_id
        has_npc == target # None /\ target \in DOMAIN w.characters
        effects == Get(dw_result, "world_effects", EmptyObj)
        text    == Get(dw_result, "dialogue", None)
        npc1    == IF has_npc /\ "npc_mood" \in DOMAIN effects
                   THEN [w.characters[target] EXCEPT !.mood = effects["npc_mood"]]
                   ELSE IF has_npc THEN w.characters[target] ELSE EmptyObj
        npc2    == IF has_npc /\ "npc_loyalty_delta" \in DOMAIN effects
                      /\ effects["npc_loyalty_delta"].tag = "num"
                   THEN [npc1 EXCEPT !.loyalty =
                            Clamp01(@ + effects["npc_loyalty_delta"].v)]
                   ELSE npc1
        chars   == IF has_npc THEN [w.characters EXCEPT ![target] = npc2]
                   ELSE w.characters
        stats   == apply_stat_changes(w.players[user_id].stats,
                                      Get(effects, "player_stats_delta", EmptyObj))
    IN  [r EXCEPT !.w.characters = chars,
                  !.w.players[user_id].stats = stats,
                  !.snippets = IF text # None THEN Append(@, <<"conversation", text>>)
                               ELSE @,
                  !.calls = Append(@, [agent |-> "dialogue_weaver", result |-> dw_result])]

\* variant: MOVE sets the location without looking the region up
resolve_action_any_region(r, user_id, a, dw_result) ==
    IF a.type = "MOVE" /\ a.target_region_id # None
    THEN [r EXCEPT !.w.players[user_id].location_region_id = a.target_region_id]
    ELSE r

\* variant: a FAST_FORWARD never lowers the num_ticks an earlier one has set
resolve_action_longest_ff(r, user_id, a, dw_result) ==
    IF a.type = "MOVE" /\ a.target_region_id # None
    THEN IF \E i \in 1..Len(r.w.regions) : r.w.regions[i] = a.target_region_id
         THEN [r EXCEPT !.w.players[user_id].location_region_id = a.target_region_id]
         ELSE r
    ELSE IF a.type = "FAST_FORWARD"
    THEN [r EXCEPT !.num_ticks = Max(@, fast_forward_ticks(a.params))]
    ELSE IF a.type = "TALK"
    THEN IF a.target_character_id # None
            /\ talk_target_players(r.w, a.target_character_id) # {}
         THEN talk_player(r, user_id, a)
         ELSE talk_npc(r, user_id, a, dw_result)
    ELSE r

\* variant: WORLD_EDIT acts on its fields like MOVE and FAST_FORWARD
resolve_action_world_edit(r, user_id, a, dw_result) ==
    IF a.type \in {"MOVE", "WORLD_EDIT"} /\ a.target_region_id # None
    THEN IF \E i \in 1..Len(r.w.regions) : r.w.regions[i] = a.target_region_id
         THEN [r EXCEPT !.w.players[user_id].location_region_id = a.target_region_id]
         ELSE r
    ELSE IF a.type \in {"FAST_FORWARD", "WORLD_EDIT"}
    THEN [r EXCEPT !.num_ticks = fast_forward_ticks(a.params)]
    ELSE IF a.type = "TALK"
    THEN IF a.target_character_id # None
            /\ talk_target_players(r.w, a.target_character_id) # {}
         THEN talk_player(r, user_id, a)
         ELSE talk_npc(r, user_id, a, dw_result)
    ELSE r

\* one iteration of `for action in actions`
resolve_action(r, user_id, a, dw_result) ==
    IF a.type = "MOVE" /\ a.target_region_id # None
    THEN IF \E i \in 1..Len(r.w.regions) : r.w.regions[i] = a.target_region_id
         THEN [r EXCEPT !.w.players[user_id].location_region_id = a.target_region_id]
         ELSE r
    ELSE IF a.type = "FAST_FORWARD"
    THEN [r EXCEPT !.num_ticks = fast_forward_ticks(a.params)]
    ELSE IF a.type = "TALK"
    THEN IF a.target_character_id # None
            /\ talk_target_players(r.w, a.target_character_id) # {}
         THEN talk_player(r, user_id, a)
         ELSE talk_npc(r, user_id, a, dw_result)
    ELSE r

RECURSIVE resolve_actions(_, _, _, _)
\* the loop over the action list, in list order
resolve_actions(r, user_id, acts, dw_result) ==
    IF acts = <<>> THEN r
    ELSE resolve_actions(resolve_action(r, user_id, Head(acts), dw_result),
                         user_id, Tail(acts), dw_result)

(***************************************************************************)
(* _update_world, part 2: event engine (Advance)                           *)
(***************************************************************************)
\* float(metrics_delta.get(name, 0.0)) is outside any try: a non-numeric
\* delta, and e["id"] of an event without id, raise
advance_raises(ee_result) ==
    LET md == Get(ee_result, "metrics_delta", EmptyObj)
        ev == Get(ee_result, "events", <<>>)
    IN  \/ \E n \in MetricNames : Get(md, n, Num(0)).tag = "bad"
        \/ \E i \in 1..Len(ev) : "id" \notin DOMAIN ev[i]

\* variant: the deltas are added without clamping
apply_metrics_delta_no_clamp(m, md) ==
    [n \in MetricNames |-> m[n] + Get(md, n, Num(0)).v]

apply_metrics_delta(m, md) ==
    [n \in MetricNames |-> Clamp01(m[n] + Get(md, n, Num(0)).v)]

\* variant: the world's health decays with every Advance
advance_decay(w, user_id, ticks, ee_result) ==
    [w EXCEPT !.tick = @ + ticks, !.metrics.world_health = Clamp01(@ - 1)]

advance(w, user_id, ticks, ee_result) ==
    LET md == Get(ee_result, "metrics_delta", EmptyObj)
        ev == Get(ee_result, "events", <<>>)
    IN  [w EXCEPT
           !.metrics = apply_metrics_delta(@, md),
           !.players[user_id].stats =
               apply_stat_changes(@, Get(ee_result, "player_stats_delta", EmptyObj)),
           !.last_events = [i \in 1..Len(ev) |->
                               [id |-> ev[i]["id"],
                                type |-> Get(ev[i], "type", "generic"),
                                tick |-> w.tick + ticks]],
           !.tick = @ + ticks]

(***************************************************************************)
(* _update_world, part 3: quest master (Quest Continuity)                  *)
(***************************************************************************)
\* variant: the returned quests are merged into the quest map
quest_continuity_merge(w, user_id, qm_result) ==
    LET new_quests == quests_from_list(Get(qm_result, "quests", <<>>))
    IN  [w EXCEPT
           !.quests = [q \in (DOMAIN @) \cup (DOMAIN new_quests) |->
                          IF q \in DOMAIN new_quests THEN new_quests[q] ELSE @[q]],
           !.players[user_id].stats =
               apply_stat_changes(@, Get(qm_result, "player_stats_delta", EmptyObj))]

quest_continuity(w, user_id, qm_result) ==
    LET quests_out == Get(qm_result, "quests", <<>>)
        new_quests == quests_from_list(quests_out)
    IN  [w EXCEPT
           !.quests = IF quests_out # <<>> /\ DOMAIN new_quests # {}
                      THEN new_quests ELSE @,
           !.players[user_id].stats =
               apply_stat_changes(@, Get(qm_result, "player_stats_delta", EmptyObj))]

(***************************************************************************)
(* handle_turn, steps 3-5: story conductor, story text, story_log          *)
(***************************************************************************)
story_text(w, extra_notes, sc_result) ==
    [kind      |-> "story",
     narration |-> Get(sc_result, "narration", None),
     notes     |-> extra_notes,
     recent    |-> LastN(w.history_summaries, 10),
     suggested |-> Get(sc_result, "suggested_actions", <<>>)]

narrate(w, user_id, message, extra_notes, sc_result, t) ==
    LET text == story_text(w, extra_notes, sc_result)
    IN  [w EXCEPT
           !.last_scene_text = text,
           !.story_log = LastN(Append(@, [tick |-> w.tick, user_id |-> user_id,
                                         message |-> message, text |-> text,
                                         timestamp |-> t]), StoryCap)]

\* variant: the world is not closed when the last player leaves
leave_never_closes(w, user_id, t) ==
    LET pruned == prune_inactive_players(w, t)
    IN  [pruned EXCEPT !.active_players = DelAll(@, {user_id}), !.is_open = w.is_open]

\* variant: leaving also deletes the user's player record
leave_forgets_player(w, user_id, t) ==
    LET pruned == prune_inactive_players(w, t)
        left   == DelAll(pruned.active_players, {user_id})
    IN  [pruned EXCEPT !.active_players = left,
                       !.players = DelAll(@, {user_id}),
                       !.is_open = IF DOMAIN left = {} THEN FALSE ELSE @]

\* leave_world between load_world and save_world
leave(w, user_id, t) ==
    LET pruned == prune_inactive_players(w, t)
        left   == DelAll(pruned.active_players, {user_id})
    IN  [pruned EXCEPT !.active_players = left,
                       !.is_open = IF DOMAIN left = {} THEN FALSE ELSE @]

\* api_chat between load_world and save_world
chat_append(w, user_id, message) ==
    [w EXCEPT !.chat_log = LastN(Append(@, <<user_id, message>>), ChatCap)]

(***************************************************************************)
(* The request handlers of flask_app.py, one atomic step per access to     *)
(* shared state (lock registry, lock, store, clock) and per pipeline stage *)
(***************************************************************************)
Ops == {"turn", "action", "state", "leave", "chat"}

IsTurn(t) == req[t].op \in {"turn", "action"}

NoReq == [op |-> "none", world |-> None, user |-> None, message |-> None]

\* the handler has produced no output yet
NoOutput == [status |-> 0, story |-> NoText, visual |-> NoText]

Reset(t) ==
    /\ ws' = [ws EXCEPT ![t] = NoWorld]
    /\ base' = [base EXCEPT ![t] = NoWorld]
    /\ pre' = [pre EXCEPT ![t] = NoWorld]
    /\ actions' = [actions EXCEPT ![t] = <<>>]
    /\ num_ticks' = [num_ticks EXCEPT ![t] = 1]
    /\ notes' = [notes EXCEPT ![t] = <<>>]
    /\ calls' = [calls EXCEPT ![t] = <<>>]
    /\ stages' = [stages EXCEPT ![t] = <<>>]
    /\ saves' = [saves EXCEPT ![t] = 0]

Init ==
    /\ store = [w \in Worlds |-> NoFile]
    /\ world_locks = [w \in Worlds |-> NoLock]
    /\ lock_owner = EmptyObj
    /\ now = 0
    /\ pc = [t \in Threads |-> "idle"]
    /\ req = [t \in Threads |-> NoReq]
    /\ lock = [t \in Threads |-> NoLock]
    /\ ws = [t \in Threads |-> NoWorld]
    /\ base = [t \in Threads |-> NoWorld]
    /\ pre = [t \in Threads |-> NoWorld]
    /\ actions = [t \in Threads |-> <<>>]
    /\ num_ticks = [t \in Threads |-> 1]
    /\ notes = [t \in Threads |-> <<>>]
    /\ calls = [t \in Threads |-> <<>>]
    /\ stages = [t \in Threads |-> <<>>]
    /\ saves = [t \in Threads |-> 0]
    /\ out = [t \in Threads |-> NoOutput]
    /\ served = 0

\* the model's bound on the work it starts
MayStart(op, w) ==
    /\ served < MaxRequests
    /\ \/ op \in {"state", "leave"}
       \/ op \in {"turn", "action"}
            /\ (store[w].exists => store[w].data.tick < MaxTick)
       \/ op = "chat"
            /\ (store[w].exists => Len(store[w].data.chat_log) < MaxChat)

\* a request arrives: the handler has read user_id, world_id and message
Start(t, op, w, u, m) ==
    /\ pc[t] = "idle"
    /\ MayStart(op, w)
    /\ served' = served + 1
    /\ req' = [req EXCEPT ![t] = [op |-> op, world |-> w, user |-> u, message |-> m]]
    /\ pc' = [pc EXCEPT ![t] = IF op = "chat" THEN "chat_load" ELSE "get_lock"]
    /\ UNCHANGED <<store, world_locks, lock_owner, now, lock, ws, actions,
                   num_ticks, notes, calls, stages, saves, base, pre, out>>

\* get_world_lock: lock = _world_locks.get(world_id)
GetLockRead(t) ==
    /\ pc[t] = "get_lock"
    /\ lock' = [lock EXCEPT ![t] = world_locks[req[t].world]]
    /\ pc' = [pc EXCEPT ![t] =
                IF world_locks[req[t].world] = NoLock THEN "new_lock" ELSE "acquire"]
    /\ UNCHANGED <<shared, req, ws, actions, num_ticks, notes, calls, stages,
                   saves, base, pre, out>>

\* variant: one lock for the whole process, entered under every world id
GetLockCreateGlobal(t) ==
    /\ pc[t] = "new_lock"
    /\ LET new == <<"*", t>>
       IN  /\ lock' = [lock EXCEPT ![t] = new]
           /\ lock_owner' = Put(lock_owner, new, Free)
           /\ world_locks' = [w \in Worlds |-> new]
    /\ pc' = [pc EXCEPT ![t] = "acquire"]
    /\ UNCHANGED <<store, now, served, req, ws, actions, num_ticks, notes, calls, stages,
                   saves, base, pre, out>>

\* get_world_lock: lock = threading.Lock(); _world_locks[world_id] = lock
GetLockCreate(t) ==
    /\ pc[t] = "new_lock"
    /\ LET new == <<req[t].world, t>>
       IN  /\ lock' = [lock EXCEPT ![t] = new]
           /\ lock_owner' = Put(lock_owner, new, Free)
           /\ world_locks' = [world_locks EXCEPT ![req[t].world] = new]
    /\ pc' = [pc EXCEPT ![t] = "acquire"]
    /\ UNCHANGED <<store, now, served, req, ws, actions, num_ticks, notes, calls, stages,
                   saves, base, pre, out>>

\* with lock: (enter)
Acquire(t) ==
    /\ pc[t] = "acquire"
    /\ lock_owner[lock[t]] = Free
    /\ lock_owner' = [lock_owner EXCEPT ![lock[t]] = t]
    /\ pc' = [pc EXCEPT ![t] =
                CASE req[t].op \in {"turn", "action"} -> "load"
                  [] req[t].op = "state" -> "view"
                  [] OTHER -> "leave_load"]
    /\ UNCHANGED <<store, world_locks, now, served, req, lock, ws, actions, num_ticks,
                   notes, calls, stages, saves, base, pre, out>>

\* variant: the lock is released on return only, not on an exception
ReleaseOnReturn(t) ==
    /\ pc[t] \in {"release", "raised"}
    /\ lock_owner' = IF pc[t] = "raised" THEN lock_owner
                     ELSE [lock_owner EXCEPT ![lock[t]] = Free]
    /\ pc' = [pc EXCEPT ![t] = "respond"]
    /\ out' = [out EXCEPT ![t] = IF pc[t] = "raised"
                                 THEN [NoOutput EXCEPT !.status = 500]
                                 ELSE [@ EXCEPT !.status = 200]]
    /\ UNCHANGED <<store, world_locks, now, served, req, lock, ws, actions, num_ticks,
                   notes, calls, stages, saves, base, pre>>

\* with lock: (exit, on return and on an exception alike), then the response
Release(t) ==
    /\ pc[t] \in {"release", "raised"}
    /\ lock_owner' = [lock_owner EXCEPT ![lock[t]] = Free]
    /\ pc' = [pc EXCEPT ![t] = "respond"]
    /\ out' = [out EXCEPT ![t] = IF pc[t] = "raised"
                                 THEN [NoOutput EXCEPT !.status = 500]
                                 ELSE [@ EXCEPT !.status = 200]]
    /\ UNCHANGED <<store, world_locks, now, served, req, lock, ws, actions, num_ticks,
                   notes, calls, stages, saves, base, pre>>

\* return jsonify(...): the request is over, its locals are gone
Respond(t) ==
    /\ pc[t] = "respond"
    /\ pc' = [pc EXCEPT ![t] = "idle"]
    /\ req' = [req EXCEPT ![t] = NoReq]
    /\ lock' = [lock EXCEPT ![t] = NoLock]
    /\ out' = [out EXCEPT ![t] = NoOutput]
    /\ Reset(t)
    /\ UNCHANGED shared

\* time passes
Clock ==
    /\ now < MaxClock * ClockStep
    /\ now' = now + ClockStep
    /\ UNCHANGED <<store, world_locks, lock_owner, served, pc, req, lock, ws, actions,
                   num_ticks, notes, calls, stages, saves, base, pre, out, served>>

(***************************************************************************)
(* handle_turn / apply_action_only, stage by stage, on the local           *)
(* world_state of the request                                              *)
(***************************************************************************)
Call(agent, result) == [agent |-> agent, result |-> result]

\* (user_message or "WAIT").strip()
Strip(m) == IF m = "" THEN "WAIT" ELSE IF m = " " THEN "" ELSE m

\* _load_or_init_world_state: load_world, world generation for an unknown
\* world id, "Ensure player exists"
LoadOrInit(t, wa_result) ==
    /\ pc[t] = "load"
    /\ LET loaded == load_world(store, req[t].world)
       IN  /\ base' = [base EXCEPT ![t] = loaded]
           /\ IF loaded # NoWorld
              THEN /\ ws' = [ws EXCEPT ![t] = ensure_player(loaded, req[t].user)]
                   /\ pc' = [pc EXCEPT ![t] = "presence"]
                   /\ calls' = calls
              ELSE /\ calls' = [calls EXCEPT ![t] =
                                  Append(@, Call("world_architect", wa_result))]
                   /\ IF init_world_raises(wa_result)
                      THEN /\ pc' = [pc EXCEPT ![t] = "raised"]
                           /\ ws' = ws
                      ELSE /\ pc' = [pc EXCEPT ![t] = "presence"]
                           /\ ws' = [ws EXCEPT ![t] = ensure_player(
                                        init_world(req[t].world, wa_result), req[t].user)]
    /\ pre' = [pre EXCEPT ![t] = ws[t]]
    /\ UNCHANGED <<shared, req, lock, actions, num_ticks, notes, stages, saves, out>>

\* variant: the world is saved as soon as the user is marked active
PresenceSaves(t) ==
    /\ pc[t] = "presence"
    /\ LET pruned  == prune_inactive_players(ws[t], now)
           touched == touch(pruned, req[t].user, now)
       IN  /\ ws' = [ws EXCEPT ![t] =
                      IF Strip(req[t].message) # ""
                      THEN log_command(touched, req[t].user, Strip(req[t].message))
                      ELSE touched]
           /\ store' = save_world(store, touched)
    /\ pre' = [pre EXCEPT ![t] = ws[t]]
    /\ pc' = [pc EXCEPT ![t] = "interpret"]
    /\ UNCHANGED <<world_locks, lock_owner, now, served, req, lock, actions, num_ticks,
                   notes, calls, stages, saves, base, out>>

\* handle_turn lines 120-134: prune, mark the user active now, log the command
Presence(t) ==
    /\ pc[t] = "presence"
    /\ LET pruned  == prune_inactive_players(ws[t], now)
           touched == touch(pruned, req[t].user, now)
       IN  ws' = [ws EXCEPT ![t] =
                    IF Strip(req[t].message) # ""
                    THEN log_command(touched, req[t].user, Strip(req[t].message))
                    ELSE touched]
    /\ pre' = [pre EXCEPT ![t] = ws[t]]
    /\ pc' = [pc EXCEPT ![t] = "interpret"]
    /\ UNCHANGED <<shared, req, lock, actions, num_ticks, notes, calls, stages,
                   saves, base, out>>

\* 1) Command Interpreter
Interpret(t, ci_result) ==
    /\ pc[t] = "interpret"
    /\ actions' = [actions EXCEPT ![t] = parse_actions(ci_result)]
    /\ calls' = [calls EXCEPT ![t] = Append(@, Call("command_interpreter", ci_result))]
    /\ stages' = [stages EXCEPT ![t] = Append(@, "Interpret")]
    /\ pre' = [pre EXCEPT ![t] = ws[t]]
    /\ pc' = [pc EXCEPT ![t] = "resolve"]
    /\ UNCHANGED <<shared, req, lock, ws, num_ticks, notes, saves, base, out>>

\* _update_world: the action loop
Resolve(t, dw_result) ==
    /\ pc[t] = "resolve"
    /\ LET r == resolve_actions(
                   [w |-> ws[t], num_ticks |-> 1, snippets |-> <<>>, calls |-> <<>>],
                   req[t].user, actions[t], dw_result)
       IN  /\ ws' = [ws EXCEPT ![t] = r.w]
           /\ num_ticks' = [num_ticks EXCEPT ![t] = r.num_ticks]
           /\ notes' = [notes EXCEPT ![t] = r.snippets]
           /\ calls' = [calls EXCEPT ![t] = @ \o r.calls]
    /\ stages' = [stages EXCEPT ![t] = Append(@, "Resolve")]
    /\ pre' = [pre EXCEPT ![t] = ws[t]]
    /\ pc' = [pc EXCEPT ![t] = "advance"]
    /\ UNCHANGED <<shared, req, lock, actions, saves, base, out>>

\* _update_world: event engine, metrics, events, tick
Advance(t, ee_result) ==
    /\ pc[t] = "advance"
    /\ calls' = [calls EXCEPT ![t] = Append(@,
                    [agent |-> "event_engine", result |-> ee_result,
                     current_tick |-> ws[t].tick, num_ticks |-> num_ticks[t]])]
    /\ stages' = [stages EXCEPT ![t] = Append(@, "Advance")]
    /\ pre' = [pre EXCEPT ![t] = ws[t]]
    /\ IF advance_raises(ee_result)
       THEN /\ pc' = [pc EXCEPT ![t] = "raised"]
            /\ ws' = ws
       ELSE /\ pc' = [pc EXCEPT ![t] = "quest"]
            /\ ws' = [ws EXCEPT ![t] = advance(@, req[t].user, num_ticks[t], ee_result)]
    /\ UNCHANGED <<shared, req, lock, actions, num_ticks, notes, saves, base, out>>

\* _update_world: quest master
QuestContinuity(t, qm_result) ==
    /\ pc[t] = "quest"
    /\ calls' = [calls EXCEPT ![t] = Append(@, Call("quest_master", qm_result))]
    /\ stages' = [stages EXCEPT ![t] = Append(@, "QuestContinuity")]
    /\ pre' = [pre EXCEPT ![t] = ws[t]]
    /\ ws' = [ws EXCEPT ![t] = quest_continuity(@, req[t].user, qm_result)]
    /\ notes' = [notes EXCEPT ![t] =
                    IF Get(qm_result, "notifications", <<>>) # <<>>
                    THEN Append(@, <<"quest_updates", qm_result["notifications"]>>)
                    ELSE @]
    /\ pc' = [pc EXCEPT ![t] = IF req[t].op = "turn" THEN "narrate" ELSE "persist"]
    /\ UNCHANGED <<shared, req, lock, actions, num_ticks, saves, base, out>>

\* handle_turn steps 3-5: story conductor, story text, story_log
Narrate(t, sc_result) ==
    /\ pc[t] = "narrate"
    /\ calls' = [calls EXCEPT ![t] = Append(@, Call("story_conductor", sc_result))]
    /\ stages' = [stages EXCEPT ![t] = Append(@, "Narrate")]
    /\ pre' = [pre EXCEPT ![t] = ws[t]]
    /\ ws' = [ws EXCEPT ![t] =
                narrate(@, req[t].user, req[t].message, notes[t], sc_result, now)]
    /\ pc' = [pc EXCEPT ![t] = "persist"]
    /\ UNCHANGED <<shared, req, lock, actions, num_ticks, notes, saves, base, out>>

\* save_world(world_state), the last statement of the turn
Persist(t) ==
    /\ pc[t] = "persist"
    /\ store' = save_world(store, ws[t])
    /\ saves' = [saves EXCEPT ![t] = @ + 1]
    /\ stages' = [stages EXCEPT ![t] = Append(@, "Persist")]
    /\ pre' = [pre EXCEPT ![t] = ws[t]]
    /\ pc' = [pc EXCEPT ![t] = IF req[t].op = "turn" THEN "view" ELSE "release"]
    /\ UNCHANGED <<world_locks, lock_owner, now, served, req, lock, ws, actions, num_ticks,
                   notes, calls, base, out>>

\* render_turn(world_state, "LOOK", None): the ASCII map of the world as pruned
render_turn(w) ==
    [kind |-> "map", tick |-> w.tick, regions |-> w.regions,
     active |-> DOMAIN w.active_players]

\* variant: an unknown world is answered like a world without story
state_view_blank(files, w, t) == [visual |-> EmptyText, story |-> EmptyText]

\* get_state_view: load, best-effort prune (not saved), the map and the story text
state_view(files, w, t) ==
    LET loaded == load_world(files, w)
        pruned == prune_inactive_players(loaded, t)
    IN  IF loaded = NoWorld THEN [visual |-> EmptyText, story |-> NotExistText]
        ELSE [visual |-> render_turn(pruned),
              story  |-> IF pruned.last_scene_text = NoText THEN EmptyText
                         ELSE pruned.last_scene_text]

\* variant: the read saves the snapshot it pruned
StateViewSaves(t) ==
    /\ pc[t] = "view"
    /\ LET view == state_view(store, req[t].world, now)
       IN  out' = [out EXCEPT ![t].story = view.story, ![t].visual = view.visual]
    /\ store' = IF store[req[t].world].exists
                THEN save_world(store, prune_inactive_players(
                                          load_world(store, req[t].world), now))
                ELSE store
    /\ pc' = [pc EXCEPT ![t] = "release"]
    /\ UNCHANGED <<world_locks, lock_owner, now, served, req, lock, ws, actions,
                   num_ticks, notes, calls, stages, saves, base, pre>>

StateView(t) ==
    /\ pc[t] = "view"
    /\ LET view == state_view(store, req[t].world, now)
       IN  out' = [out EXCEPT ![t].story = view.story, ![t].visual = view.visual]
    /\ pc' = [pc EXCEPT ![t] = "release"]
    /\ UNCHANGED <<shared, req, lock, ws, actions, num_ticks, notes, calls, stages,
                   saves, base, pre>>

\* leave_world: ws = load_world(world_id)
LeaveLoad(t) ==
    /\ pc[t] = "leave_load"
    /\ LET loaded == load_world(store, req[t].world)
       IN  /\ base' = [base EXCEPT ![t] = loaded]
           /\ ws' = [ws EXCEPT ![t] = loaded]
           /\ pc' = [pc EXCEPT ![t] = IF loaded = NoWorld THEN "release" ELSE "leave_save"]
    /\ UNCHANGED <<shared, req, lock, actions, num_ticks, notes, calls, stages,
                   saves, pre, out>>

\* leave_world: prune, remove the user, close if nobody is left, save_world(ws)
LeaveSave(t) ==
    /\ pc[t] = "leave_save"
    /\ LET left == leave(ws[t], req[t].user, now)
       IN  /\ ws' = [ws EXCEPT ![t] = left]
           /\ store' = save_world(store, left)
    /\ pre' = [pre EXCEPT ![t] = ws[t]]
    /\ saves' = [saves EXCEPT ![t] = @ + 1]
    /\ pc' = [pc EXCEPT ![t] = "release"]
    /\ UNCHANGED <<world_locks, lock_owner, now, served, req, lock, actions, num_ticks,
                   notes, calls, stages, base, out>>

\* api_chat: ws = load_world(world_id), without the world's lock
ChatLoad(t) ==
    /\ pc[t] = "chat_load"
    /\ LET loaded == load_world(store, req[t].world)
       IN  /\ base' = [base EXCEPT ![t] = loaded]
           /\ ws' = [ws EXCEPT ![t] = loaded]
           /\ pc' = [pc EXCEPT ![t] = IF loaded = NoWorld THEN "respond" ELSE "chat_save"]
           /\ out' = [out EXCEPT ![t].status = IF loaded = NoWorld THEN 404 ELSE @]
    /\ UNCHANGED <<shared, req, lock, actions, num_ticks, notes, calls, stages,
                   saves, pre>>

\* api_chat: append the entry, cap the log, save_world(ws)
ChatSave(t) ==
    /\ pc[t] = "chat_save"
    /\ LET appended == chat_append(ws[t], req[t].user, req[t].message)
       IN  /\ ws' = [ws EXCEPT ![t] = appended]
           /\ store' = save_world(store, appended)
    /\ pre' = [pre EXCEPT ![t] = ws[t]]
    /\ saves' = [saves EXCEPT ![t] = @ + 1]
    /\ pc' = [pc EXCEPT ![t] = "respond"]
    /\ out' = [out EXCEPT ![t].status = 200]
    /\ UNCHANGED <<world_locks, lock_owner, now, served, req, lock, actions, num_ticks,
                   notes, calls, stages, base>>

(***************************************************************************)
(* Next-state relations                                                    *)
(***************************************************************************)
LockSteps(t) ==
    \/ GetLockRead(t)
    \/ GetLockCreate(t)
    \/ Acquire(t)
    \/ Release(t)
    \/ Respond(t)

TurnSteps(t, WA, CI, DW, EE, QM, SC) ==
    \/ \E wa_result \in WA : LoadOrInit(t, wa_result)
    \/ Presence(t)
    \/ \E ci_result \in CI : Interpret(t, ci_result)
    \/ \E dw_result \in DW : Resolve(t, dw_result)
    \/ \E ee_result \in EE : Advance(t, ee_result)
    \/ \E qm_result \in QM : QuestContinuity(t, qm_result)
    \/ \E sc_result \in SC : Narrate(t, sc_result)
    \/ Persist(t)
    \/ StateView(t)

LeaveSteps(t) == LeaveLoad(t) \/ LeaveSave(t)

ChatSteps(t) == ChatLoad(t) \/ ChatSave(t)

Quiet == {EmptyObj}     \* a collaborator that always answers {}

\* The requests of the server model: thread t1 serves user u1 on world w1,
\* thread t2 serves user u2 on world w1, and u2's turns on world w2
Requests(t) ==
    IF t = "t1" THEN {<<op, "w1", "u1">> : op \in Ops}
    ELSE {<<op, "w1", "u2">> : op \in Ops} \cup {<<"turn", "w2", "u2">>}

\* The server: request threads serving every endpoint
Next ==
    \E t \in Threads :
        \/ \E r \in Requests(t) : Start(t, r[1], r[2], r[3], "look")
        \/ LockSteps(t)
        \/ TurnSteps(t, Quiet, Quiet, Quiet, Quiet, Quiet, Quiet)
        \/ LeaveSteps(t)
        \/ ChatSteps(t)

Spec == Init /\ [][Next]_vars

(***************************************************************************)
(* One client at a time: thread t1 on world w1, with collaborator answers  *)
(* drawn from the sets below                                               *)
(***************************************************************************)
\* event engine answers: {}, deltas beyond both ends of [0,1], small
\* deltas, a non-numeric metric delta, a non-numeric stat delta, an event
\* without id
EEResults ==
    { EmptyObj,
      [metrics_delta |-> [world_health |-> Num(20), chaos_level |-> Num(-20),
                          magic_level |-> Num(3)]],
      [metrics_delta |-> [world_health |-> Num(-4), alliance_tension |-> Num(9)]],
      [metrics_delta |-> [alliance_tension |-> Num(-1), magic_level |-> Bad]],
      [player_stats_delta |-> [courage |-> Bad, luck |-> Num(-20)]],
      [events |-> <<[id |-> "e1", type |-> "boss_battle"], [type |-> "storm"]>>] }

NextAdvance ==
    \/ \E op \in {"turn", "action"} : Start("t1", op, "w1", "u1", "look")
    \/ LockSteps("t1")
    \/ TurnSteps("t1", Quiet, Quiet, Quiet, EEResults, Quiet, Quiet)

SpecAdvance == Init /\ [][NextAdvance]_vars

FF(params) == [type |-> "FAST_FORWARD", params |-> params]

\* interpreter answers: {}, FAST_FORWARD with days "5", 2, -3, non-numeric
\* and missing, FAST_FORWARD among other actions, two FAST_FORWARDs, two
\* FAST_FORWARDs followed by another action
CIFastForward ==
    { EmptyObj,
      [actions |-> <<FF([days |-> Num(5)])>>],
      [actions |-> <<FF([days |-> Num(-3)])>>],
      [actions |-> <<FF([days |-> Bad])>>],
      [actions |-> <<[type |-> "FAST_FORWARD"]>>],
      [actions |-> <<[type |-> "EXPLORE"], FF([days |-> Num(2)]), [type |-> "WAIT"]>>],
      [actions |-> <<FF([days |-> Num(5)]), FF([days |-> Num(2)])>>],
      [actions |-> <<FF([days |-> Num(5)]), FF([days |-> Num(2)]), [type |-> "WAIT"]>>] }

NextFastForward ==
    \/ \E op \in {"turn", "action"} : Start("t1", op, "w1", "u1", "look")
    \/ LockSteps("t1")
    \/ TurnSteps("t1", Quiet, CIFastForward, Quiet, Quiet, Quiet, Quiet)

SpecFastForward == Init /\ [][NextFastForward]_vars

\* world architect answers: {}, and starter quests main_1 (completed), side_1
WAQuests ==
    { EmptyObj,
      [starter_quests |-> <<[id |-> "main_1", status |-> "completed"],
                            [id |-> "side_1"]>>] }

\* quest master answers: {}, a single quest main_2, a list whose only entry
\* has no id, a list with and without ids, an empty list with a notification
QMResults ==
    { EmptyObj,
      [quests |-> <<[id |-> "main_2"]>>],
      [quests |-> <<[title |-> "untitled"]>>],
      [quests |-> <<[id |-> "side_1", status |-> "failed"], [title |-> "untitled"],
                    [id |-> "main_1", status |-> "completed"]>>],
      [quests |-> <<>>, notifications |-> <<"New Quest">>] }

NextQuest ==
    \/ \E op \in {"turn", "action"} : Start("t1", op, "w1", "u1", "look")
    \/ LockSteps("t1")
    \/ TurnSteps("t1", WAQuests, Quiet, Quiet, Quiet, QMResults, Quiet)

SpecQuest == Init /\ [][NextQuest]_vars

\* two users taking turns and leaving, while time passes
NextPresence ==
    \/ \E op \in {"turn", "leave", "state"}, u \in Users : Start("t1", op, "w1", u, "look")
    \/ LockSteps("t1")
    \/ TurnSteps("t1", Quiet, Quiet, Quiet, Quiet, Quiet, Quiet)
    \/ LeaveSteps("t1")
    \/ Clock

SpecPresence == Init /\ [][NextPresence]_vars

\* time passes between two requests
ClockWhenIdle ==
    /\ \A t \in Threads : pc[t] = "idle"
    /\ Clock

\* two users' sessions on one world, request after request, every endpoint
NextSessions ==
    \/ \E op \in Ops, u \in Users : Start("t1", op, "w1", u, "look")
    \/ LockSteps("t1")
    \/ TurnSteps("t1", Quiet, Quiet, Quiet, Quiet, Quiet, Quiet)
    \/ LeaveSteps("t1")
    \/ ChatSteps("t1")
    \/ ClockWhenIdle

SpecSessions == Init /\ [][NextSessions]_vars

\* world architect answers: {}, and history_notes one entry longer than the
\* cap of history_summaries
WAHistory ==
    { EmptyObj,
      [history_notes |-> [i \in 1..(HistoryCap + 1) |-> <<"note", ToString(i)>>]] }

\* turns, action-only turns and chat appends of one user; the message of a
\* turn is a command or blank (api_chat answers 400 to a blank message)
NextLogs ==
    \/ \E op \in {"turn", "action"}, m \in {"look", " "} : Start("t1", op, "w1", "u1", m)
    \/ Start("t1", "chat", "w1", "u1", "look")
    \/ LockSteps("t1")
    \/ TurnSteps("t1", WAHistory, Quiet, Quiet, Quiet, Quiet, Quiet)
    \/ ChatSteps("t1")

SpecLogs == Init /\ [][NextLogs]_vars

Talk(target, params) ==
    [type |-> "TALK", target_character_id |-> target, params |-> params]

\* world architect answers: {}, two characters, one of them under the
\* character id of player u2, and a character of loyalty 1.5
WACharacters ==
    { EmptyObj,
      [starter_characters |-> <<[id |-> "mira", mood |-> "calm", loyalty |-> Num(5)],
                                [id |-> "u2_char", loyalty |-> Num(3)]>>],
      [starter_characters |-> <<[id |-> "mira", loyalty |-> Num(15)]>>] }

\* interpreter answers: {}, TALK at u2's character id with an utterance,
\* TALK at u2's name, TALK at a character, TALK at nobody
CITalk ==
    { EmptyObj,
      [actions |-> <<Talk("u2_char", [utterance |-> "hello"])>>],
      [actions |-> <<Talk("u2", EmptyObj)>>],
      [actions |-> <<Talk("mira", [utterance |-> "hello"])>>],
      [actions |-> <<[type |-> "TALK"]>>] }

\* dialogue answers: {}, and a line with effects on the character and the player
DWResults ==
    { EmptyObj,
      [dialogue |-> "well met",
       world_effects |-> [npc_mood |-> "angry", npc_loyalty_delta |-> Num(2),
                          player_stats_delta |-> [courage |-> Num(1)]]] }

\* two users taking turns on one world and leaving it
NextTalk ==
    \/ \E op \in {"turn", "action", "leave"}, u \in Users : Start("t1", op, "w1", u, "look")
    \/ LockSteps("t1")
    \/ TurnSteps("t1", WACharacters, CITalk, DWResults, Quiet, Quiet, Quiet)
    \/ LeaveSteps("t1")

SpecTalk == Init /\ [][NextTalk]_vars

Move(region) == [type |-> "MOVE", target_region_id |-> region]

\* world architect answers: {}, an empty region list, and the two regions
\* harbor and forest
WARegions ==
    { EmptyObj,
      [regions |-> <<>>, starter_quests |-> <<[id |-> "main_1"]>>],
      [regions |-> <<[id |-> "harbor", type |-> "town"], [id |-> "forest"]>>] }

\* interpreter answers: {}, MOVE to forest, to harbor, to a region the world
\* does not have, without target, and two MOVEs of which the last names no
\* region of the world
CIMove ==
    { EmptyObj,
      [actions |-> <<Move("forest")>>],
      [actions |-> <<Move("harbor")>>],
      [actions |-> <<Move("atlantis")>>],
      [actions |-> <<[type |-> "MOVE"]>>],
      [actions |-> <<Move("forest"), Move("atlantis")>>] }

NextMove ==
    \/ \E op \in {"turn", "action"}, u \in Users : Start("t1", op, "w1", u, "look")
    \/ LockSteps("t1")
    \/ TurnSteps("t1", WARegions, CIMove, Quiet, Quiet, Quiet, Quiet)

SpecMove == Init /\ [][NextMove]_vars

\* interpreter answers that stand for WAIT: {}, one WAIT, two WAITs
CIWait ==
    { EmptyObj,
      [actions |-> <<[type |-> "WAIT"]>>],
      [actions |-> <<[type |-> "WAIT"], [type |-> "WAIT"]>>] }

\* event engine answers with empty deltas: {}, and an event with empty
\* metrics_delta and player_stats_delta
EEEmptyDeltas ==
    { EmptyObj,
      [metrics_delta |-> EmptyObj, player_stats_delta |-> EmptyObj,
       events |-> <<[id |-> "e1", type |-> "storm"]>>] }

\* quest master answers with empty deltas: {}, and a notification with an
\* empty quest list and an empty player_stats_delta
QMEmptyDeltas ==
    { EmptyObj,
      [quests |-> <<>>, player_stats_delta |-> EmptyObj,
       notifications |-> <<"the tide turns">>] }

\* two users waiting, turn after turn, in a world with starter quests
NextWait ==
    \/ \E op \in {"turn", "action"}, u \in Users : Start("t1", op, "w1", u, "look")
    \/ LockSteps("t1")
    \/ TurnSteps("t1", WAQuests, CIWait, Quiet, EEEmptyDeltas, QMEmptyDeltas, Quiet)

SpecWait == Init /\ [][NextWait]_vars

\* A snapshot file as load_world may find it on disk: world_state_from_dict
\* accepts any saved dict, so is_open may be either value and a timestamp of
\* active_players may be a time of the clock or a value float() rejects
Stamps == {Num(0), Num(ClockStep), Bad}

SnapshotsOnDisk ==
    { [exists |-> TRUE,
       data |-> [world_id |-> "w1",
                 regions |-> <<"glass_whale_bay">>,
                 players |-> [u \in Users |-> PlayerState(u, "glass_whale_bay")],
                 active_players |-> ap,
                 is_open |-> b]] :
      ap \in UNION {[S -> Stamps] : S \in SUBSET Users}, b \in BOOLEAN }

InitPrune ==
    /\ store \in {[w \in Worlds |-> IF w = "w1" THEN f ELSE NoFile] : f \in SnapshotsOnDisk}
    /\ world_locks = [w \in Worlds |-> NoLock]
    /\ lock_owner = EmptyObj
    /\ now = 0
    /\ pc = [t \in Threads |-> "idle"]
    /\ req = [t \in Threads |-> NoReq]
    /\ lock = [t \in Threads |-> NoLock]
    /\ ws = [t \in Threads |-> NoWorld]
    /\ base = [t \in Threads |-> NoWorld]
    /\ pre = [t \in Threads |-> NoWorld]
    /\ actions = [t \in Threads |-> <<>>]
    /\ num_ticks = [t \in Threads |-> 1]
    /\ notes = [t \in Threads |-> <<>>]
    /\ calls = [t \in Threads |-> <<>>]
    /\ stages = [t \in Threads |-> <<>>]
    /\ saves = [t \in Threads |-> 0]
    /\ out = [t \in Threads |-> NoOutput]
    /\ served = 0

\* reads and leaves on a world found on disk, by its players and by a user
\* who is not one of them, while time passes between the requests
NextPrune ==
    \/ \E op \in {"state", "leave"}, u \in Users \cup {"u3"} :
          Start("t1", op, "w1", u, "look")
    \/ LockSteps("t1")
    \/ StateView("t1")
    \/ LeaveSteps("t1")
    \/ ClockWhenIdle

SpecPrune == InitPrune /\ [][NextPrune]_vars

\* stat deltas from the three stages that apply them: the dialogue answer
\* of a TALK, the event engine and the quest master, with deltas beyond both
\* ends of [0,1], a non-numeric delta and the stat name luck, which no
\* player starts with
CIStats ==
    { EmptyObj, [actions |-> <<Talk("nobody", EmptyObj)>>] }

DWStats ==
    { EmptyObj,
      [world_effects |-> [player_stats_delta |-> [courage |-> Num(7), luck |-> Num(2)]]] }

EEStats ==
    { EmptyObj,
      [player_stats_delta |-> [courage |-> Num(-20), empathy |-> Bad, luck |-> Num(-7)]] }

QMStats ==
    { EmptyObj,
      [player_stats_delta |-> [cunning |-> Num(20), luck |-> Num(7)]] }

NextStats ==
    \/ \E op \in {"turn", "action"} : Start("t1", op, "w1", "u1", "look")
    \/ LockSteps("t1")
    \/ TurnSteps("t1", Quiet, CIStats, DWStats, EEStats, QMStats, Quiet)

SpecStats == Init /\ [][NextStats]_vars

\* world architect answers: {}, and two regions with one character
WAInert ==
    { EmptyObj,
      [regions |-> <<[id |-> "harbor"], [id |-> "forest"]>>,
       starter_characters |-> <<[id |-> "mira", loyalty |-> Num(5)]>>] }

\* interpreter answers with EXPLORE, WAIT, WORLD_EDIT and SHOW_QUESTS: alone,
\* all four, after a FAST_FORWARD, after a MOVE (WORLD_EDIT carrying a
\* region and days of its own), and after a TALK
CIInert ==
    { [actions |-> <<[type |-> "EXPLORE"]>>],
      [actions |-> <<[type |-> "SHOW_QUESTS"]>>],
      [actions |-> <<[type |-> "EXPLORE"], [type |-> "WAIT"],
                     [type |-> "WORLD_EDIT"], [type |-> "SHOW_QUESTS"]>>],
      [actions |-> <<FF([days |-> Num(2)]), [type |-> "EXPLORE"]>>],
      [actions |-> <<Move("forest"),
                     [type |-> "WORLD_EDIT", target_region_id |-> "harbor",
                      params |-> [days |-> Num(5)]]>>],
      [actions |-> <<Talk("mira", [utterance |-> "hello"]),
                     [type |-> "SHOW_QUESTS", target_character_id |-> "mira"]>>] }

NextInert ==
    \/ \E op \in {"turn", "action"} : Start("t1", op, "w1", "u1", "look")
    \/ LockSteps("t1")
    \/ TurnSteps("t1", WAInert, CIInert, DWResults, Quiet, Quiet, Quiet)

SpecInert == Init /\ [][NextInert]_vars

\* event engine answers: {}, one event, and four events
EEEvents ==
    { EmptyObj,
      [events |-> <<[id |-> "e1", type |-> "omen"]>>],
      [events |-> <<[id |-> "e1"], [id |-> "e2"], [id |-> "e3"], [id |-> "e4"]>>] }

NextEvents ==
    \/ \E op \in {"turn", "action"} : Start("t1", op, "w1", "u1", "look")
    \/ LockSteps("t1")
    \/ TurnSteps("t1", Quiet, Quiet, Quiet, EEEvents, Quiet, Quiet)

SpecEvents == Init /\ [][NextEvents]_vars

\* collaborator answers whose lists hold an entry without id next to entries
\* with one: starter quests, starter characters, events, quests
WAMissingIds ==
    { EmptyObj,
      [starter_quests |-> <<[title |-> "untitled"], [id |-> "main_1"]>>],
      [starter_characters |-> <<[name |-> "nameless"], [id |-> "mira"]>>] }

EEMissingIds ==
    { EmptyObj,
      [events |-> <<[type |-> "storm"], [id |-> "e1"]>>] }

QMMissingIds ==
    { EmptyObj,
      [quests |-> <<[title |-> "untitled"], [id |-> "side_1"]>>] }

NextMissingIds ==
    \/ \E op \in {"turn", "action"} : Start("t1", op, "w1", "u1", "look")
    \/ LockSteps("t1")
    \/ TurnSteps("t1", WAMissingIds, Quiet, Quiet, EEMissingIds, QMMissingIds, Quiet)

SpecMissingIds == Init /\ [][NextMissingIds]_vars

\* event engine answers: {}, and a non-numeric metric delta, which makes the
\* Advance stage raise inside the guarded section
EERaising ==
    { EmptyObj, [metrics_delta |-> [magic_level |-> Bad]] }

\* the steps of the request thread t once its request has arrived
GuardedSteps(t) ==
    \/ LockSteps(t)
    \/ TurnSteps(t, Quiet, Quiet, Quiet, EERaising, Quiet, Quiet)
    \/ LeaveSteps(t)

\* two request threads on one world: u1's full and action-only turns, some
\* of which raise, against u2's reads and leaves
NextGuard ==
    \E t \in Threads :
        \/ \E op \in (IF t = "t1" THEN {"turn", "action"} ELSE {"state", "leave"}) :
              Start(t, op, "w1", IF t = "t1" THEN "u1" ELSE "u2", "look")
        \/ GuardedSteps(t)

\* a running thread is scheduled again and again, and every collaborator and
\* store call returns: each thread's steps are weakly fair; requests arrive
\* or not
SpecGuard ==
    Init /\ [][NextGuard]_vars /\ \A t \in Threads : WF_vars(GuardedSteps(t))

(***************************************************************************)
(* Properties                                                              *)
(***************************************************************************)
Last(seq) == seq[Len(seq)]

\* a turn between the return of its load_world and its save_world
InTurnWindow(t) ==
    /\ IsTurn(t)
    /\ pc[t] \in {"presence", "interpret", "resolve", "advance", "quest", "narrate",
                  "persist"}

\* any operation between its load_world and the save_world that follows it
InLoadSaveWindow(t) ==
    \/ InTurnWindow(t)
    \/ pc[t] \in {"leave_save", "chat_save"}

\* C1: two turns (full or action-only) for the same world id never
\* interleave: while one turn is between its load and its save, no other
\* turn for that world id is between its own load and save (the other turn
\* would run its Resolve, Advance or Persist step inside the first one's
\* window, or the first inside the other's).
C1_TurnsNeverInterleave ==
    \A t1, t2 \in Threads :
        (t1 # t2 /\ req[t1].world = req[t2].world)
            => ~(InTurnWindow(t1) /\ InTurnWindow(t2))

\* C2: each world id owns exactly one guard: every lock object ever created
\* for a world id is the same object, and all handlers working on one world id
\* hold a reference to the same lock.
C2_OneLockPerWorld ==
    /\ \A l1, l2 \in DOMAIN lock_owner : l1[1] = l2[1] => l1 = l2
    /\ \A t1, t2 \in Threads :
          (req[t1].world = req[t2].world /\ lock[t1] # NoLock /\ lock[t2] # NoLock)
              => lock[t1] = lock[t2]

\* C3: every operation that loads and saves a world's snapshot holds that
\* world's guard from its load to its save, and the snapshot in the store is
\* still the one it loaded when it saves (no lost update); full turn,
\* action-only turn, leave and chat append alike.
C3_GuardHeldFromLoadToSave ==
    \A t \in Threads :
        InLoadSaveWindow(t) =>
            /\ lock[t] # NoLock
            /\ lock_owner[lock[t]] = t
            /\ load_world(store, req[t].world) = base[t]

PipelineOrder ==
    <<"Interpret", "Resolve", "Advance", "QuestContinuity", "Narrate", "Persist">>

\* the request has left the pipeline: its handler returns or has returned
Finished(t) == pc[t] \in {"view", "release", "raised", "respond"}

\* C4: a full turn runs Interpret, Resolve, Advance, Quest Continuity,
\* Narrate, Persist in this order, each exactly once: the stages run so far
\* are always a prefix of that order, and a full turn that has left the
\* pipeline has run all six and saved the snapshot exactly once.
C4_StagesOnceInOrder ==
    \A t \in Threads :
        req[t].op = "turn" =>
            /\ Len(stages[t]) <= Len(PipelineOrder)
            /\ stages[t] = SubSeq(PipelineOrder, 1, Len(stages[t]))
            /\ Finished(t) => (stages[t] = PipelineOrder /\ saves[t] = 1)

AllEmpty(cs) == \A i \in 1..Len(cs) : cs[i].result = EmptyObj

\* C5: a full turn in which every collaborator call returned {} raises at no
\* stage, interprets to the single action WAIT, and, once it has left the
\* pipeline, has saved the snapshot and returns a rendered story text.
C5_QuietTurnCompletes ==
    \A t \in Threads :
        (req[t].op = "turn" /\ AllEmpty(calls[t])) =>
            /\ pc[t] # "raised"
            /\ ("Interpret" \in {stages[t][i] : i \in 1..Len(stages[t])}
                  => actions[t] = <<Action("WAIT", None, None, EmptyObj)>>)
            /\ Finished(t) => (Last(stages[t]) = "Persist" /\ saves[t] = 1)
            /\ pc[t] \in {"release", "respond"} => out[t].story.kind = "story"

\* C5 witness: a quiet full turn on a world and player that existed before
\* it has returned its story.
C5_Witness ==
    \E t \in Threads :
        /\ req[t].op = "turn" /\ AllEmpty(calls[t]) /\ pc[t] = "respond"
        /\ base[t] # NoWorld /\ req[t].user \in DOMAIN base[t].players
        /\ out[t].story.kind = "story" /\ out[t].status = 200

\* the metric names for which the event engine's answer holds a non-numeric delta
BadMetricDeltas(ee_result) ==
    {n \in MetricNames :
        Get(Get(ee_result, "metrics_delta", EmptyObj), n, Num(0)).tag = "bad"}

BadStatDeltas(result) ==
    {n \in DOMAIN Get(result, "player_stats_delta", EmptyObj) :
        result["player_stats_delta"][n].tag = "bad"}

\* C6: a non-numeric delta for a world metric or a player stat is ignored:
\* after the Advance stage that received it the turn goes on to Quest
\* Continuity and the affected value is the one before the stage.
C6_MalformedDeltaIgnored ==
    \A t \in Threads :
        (IsTurn(t) /\ stages[t] # <<>> /\ Last(stages[t]) = "Advance") =>
            LET ee == Last(calls[t]).result
                u  == req[t].user
            IN  (BadMetricDeltas(ee) \cup BadStatDeltas(ee) # {}) =>
                    /\ pc[t] = "quest"
                    /\ \A n \in BadMetricDeltas(ee) : ws[t].metrics[n] = pre[t].metrics[n]
                    /\ \A n \in BadStatDeltas(ee) :
                          ws[t].players[u].stats[n] = Get(pre[t].players[u].stats, n, Half)

InUnit(x) == 0 <= x /\ x <= One

\* C7: each of the four world metrics is within [0,1] in the world state of
\* every request and in every persisted snapshot, so after every Advance step.
C7_MetricsInUnitInterval ==
    /\ \A t \in Threads :
          ws[t] # NoWorld => \A n \in MetricNames : InUnit(ws[t].metrics[n])
    /\ \A w \in Worlds :
          store[w].exists => \A n \in MetricNames : InUnit(store[w].data.metrics[n])

\* C7 witness: an Advance step has just applied deltas that overshoot both
\* ends of the interval.
C7_Witness ==
    \E t \in Threads :
        /\ stages[t] # <<>> /\ Last(stages[t]) = "Advance" /\ pc[t] = "quest"
        /\ LET md == Get(Last(calls[t]).result, "metrics_delta", EmptyObj)
           IN  /\ "world_health" \in DOMAIN md /\ "chaos_level" \in DOMAIN md
               /\ pre[t].metrics.world_health + md.world_health.v > One
               /\ pre[t].metrics.chaos_level + md.chaos_level.v < 0
               /\ ws[t].metrics.world_health = One
               /\ ws[t].metrics.chaos_level = 0

\* the index of the last FAST_FORWARD of an action list, 0 when there is none
LastFastForward(acts) ==
    LET ffs == {i \in 1..Len(acts) : acts[i].type = "FAST_FORWARD"}
    IN  IF ffs = {} THEN 0 ELSE CHOOSE i \in ffs : \A j \in ffs : j <= i

\* max(1, days), days being params.days as an integer, 1 when it is missing
\* or does not parse; 1 for a turn without FAST_FORWARD
ExpectedTicks(acts) ==
    LET i == LastFastForward(acts)
    IN  IF i = 0 THEN 1
        ELSE IF "days" \in DOMAIN acts[i].params /\ acts[i].params["days"].tag = "num"
                /\ acts[i].params["days"].v >= 1
             THEN acts[i].params["days"].v
             ELSE 1

TickBefore(t) == IF base[t] = NoWorld THEN 0 ELSE base[t].tick

\* the Advance stage of the request has run to its end
AdvanceDone(t) ==
    \/ pc[t] = "quest"
    \/ "QuestContinuity" \in {stages[t][i] : i \in 1..Len(stages[t])}

\* C8: the num_ticks handed to the event engine is max(1, days) of the
\* turn's FAST_FORWARD (1 without FAST_FORWARD or without a usable days),
\* the tick after Advance is the tick before the turn plus that number, and
\* that tick is the one the turn persists.
C8_FastForwardTicks ==
    \A t \in Threads :
        IsTurn(t) =>
            /\ ("Resolve" \in {stages[t][i] : i \in 1..Len(stages[t])}
                  => num_ticks[t] = ExpectedTicks(actions[t]))
            /\ \A i \in 1..Len(calls[t]) :
                  calls[t][i].agent = "event_engine" =>
                      /\ calls[t][i].num_ticks = ExpectedTicks(actions[t])
                      /\ calls[t][i].current_tick = TickBefore(t)
            /\ AdvanceDone(t)
                  => ws[t].tick = TickBefore(t) + ExpectedTicks(actions[t])
            /\ saves[t] = 1
                  => store[req[t].world].data.tick
                        = TickBefore(t) + ExpectedTicks(actions[t])

\* C8 witness: a turn with FAST_FORWARD days = 5 has persisted a tick five
\* past the tick it loaded.
C8_Witness ==
    \E t \in Threads :
        /\ IsTurn(t) /\ pc[t] = "release" /\ saves[t] = 1 /\ base[t] # NoWorld
        /\ LastFastForward(actions[t]) # 0
        /\ ExpectedTicks(actions[t]) = 5
        /\ store[req[t].world].data.tick = base[t].tick + 5

\* the ids carried by the entries of a collaborator's quest list
ReturnedIds(lst) ==
    {lst[i]["id"] : i \in {j \in 1..Len(lst) : "id" \in DOMAIN lst[j]}}

JustRanQuestContinuity(t) ==
    IsTurn(t) /\ stages[t] # <<>> /\ Last(stages[t]) = "QuestContinuity"

\* C9 as claimed: after Quest Continuity, a non-empty returned quest list
\* has replaced the quest map (its keys are exactly the returned ids), and
\* an empty or missing list has left the quest map unchanged.
C9_ReplaceWhenNonEmpty ==
    \A t \in Threads :
        JustRanQuestContinuity(t) =>
            LET lst == Get(Last(calls[t]).result, "quests", <<>>)
            IN  IF lst # <<>>
                THEN DOMAIN ws[t].quests = ReturnedIds(lst)
                ELSE ws[t].quests = pre[t].quests

\* C9 amended: the quest map is replaced when at least one returned quest
\* carries an id: its keys are then exactly the returned ids, each with the
\* status of the last entry carrying that id (default open); when the list
\* is empty, missing, or holds no entry with an id, the quest map is the one
\* before the stage.
C9_ReplaceWhenSomeId ==
    \A t \in Threads :
        JustRanQuestContinuity(t) =>
            LET lst == Get(Last(calls[t]).result, "quests", <<>>)
            IN  IF ReturnedIds(lst) # {}
                THEN /\ DOMAIN ws[t].quests = ReturnedIds(lst)
                     /\ \A q \in ReturnedIds(lst) :
                           \E i \in 1..Len(lst) :
                              /\ "id" \in DOMAIN lst[i] /\ lst[i]["id"] = q
                              /\ ws[t].quests[q].status = Get(lst[i], "status", "open")
                              /\ \A j \in (i+1)..Len(lst) :
                                    "id" \in DOMAIN lst[j] => lst[j]["id"] # q
                ELSE ws[t].quests = pre[t].quests

\* C9 witness: the quest master returned the single quest main_2 while the
\* world held main_1 and side_1; the quest map is now exactly {main_2}.
C9_Witness ==
    \E t \in Threads :
        /\ JustRanQuestContinuity(t)
        /\ DOMAIN pre[t].quests = {"main_1", "side_1"}
        /\ ReturnedIds(Get(Last(calls[t]).result, "quests", <<>>)) = {"main_2"}
        /\ DOMAIN ws[t].quests = {"main_2"}

\* the users other than u whose entry in active_players of w has not timed
\* out at time tm
OthersActive(w, u, tm) ==
    {v \in (DOMAIN w.active_players) \ {u} :
        /\ w.active_players[v].tag = "num"
        /\ tm - w.active_players[v].v <= SESSION_TIMEOUT_SECONDS}

\* C10: the snapshot leave(user) persists has is_open = false when the user
\* was active and no other player remains active, and is_open = true when
\* at least one other player is still active (not timed out).
C10_LeaveDerivesIsOpen ==
    [][ \A t \in Threads :
          (pc[t] = "leave_save" /\ pc'[t] = "release") =>
              LET others == OthersActive(ws[t], req[t].user, now)
                  saved  == store'[req[t].world].data
              IN  /\ (req[t].user \in DOMAIN ws[t].active_players /\ others = {})
                        => saved.is_open = FALSE
                  /\ others # {} => saved.is_open = TRUE
      ]_vars

\* C10 witness: a user who was active has left a world in which another
\* player is still active, and the persisted snapshot is open.
C10_Witness ==
    \E t \in Threads :
        /\ req[t].op = "leave" /\ pc[t] = "release" /\ saves[t] = 1
        /\ req[t].user \in DOMAIN pre[t].active_players
        /\ DOMAIN ws[t].active_players # {}
        /\ store[req[t].world].data.is_open = TRUE
        /\ store[req[t].world].data.active_players = ws[t].active_players

\* the entries of active_players of w that are older than the idle timeout
\* at time tm
Stale(w, tm) ==
    {u \in DOMAIN w.active_players :
        \/ w.active_players[u].tag # "num"
        \/ tm - w.active_players[u].v > SESSION_TIMEOUT_SECONDS}

\* the step with which thread t ends its operation on the world
OpDone(t) ==
    /\ pc[t] \in {"view", "persist", "leave_save", "chat_save"}
    /\ pc'[t] \in {"release", "respond"}

\* C11: when an operation (turn, action-only turn, leave, read, chat) has
\* ended, the persisted snapshot of its world has is_open = true if and only
\* if its active_players is non-empty and holds no entry older than the idle
\* timeout.
C11_IsOpenIffActive ==
    [][ \A t \in Threads :
          (OpDone(t) /\ store'[req[t].world].exists) =>
              LET w == load_world(store', req[t].world)
              IN  w.is_open <=> (DOMAIN w.active_players # {} /\ Stale(w, now') = {})
      ]_vars

\* C12: in every snapshot, persisted or held by a running operation, the
\* keys of active_players are keys of players; and an operation holds every
\* player record of the snapshot it loaded (it removes none).
C12_ActiveSubsetOfPlayers ==
    /\ \A w \in Worlds :
          store[w].exists =>
              DOMAIN load_world(store, w).active_players
                  \subseteq DOMAIN load_world(store, w).players
    /\ \A t \in Threads :
          ws[t] # NoWorld =>
              /\ DOMAIN ws[t].active_players \subseteq DOMAIN ws[t].players
              /\ base[t] # NoWorld =>
                    DOMAIN base[t].players \subseteq DOMAIN ws[t].players

\* C12 witness: both users have played a world and u1 has left it: the
\* persisted snapshot holds both player records and u2 alone is active.
C12_Witness ==
    \E t \in Threads :
        /\ req[t].op = "leave" /\ req[t].user = "u1" /\ saves[t] = 1
        /\ "u1" \in DOMAIN base[t].active_players
        /\ DOMAIN load_world(store, req[t].world).players = {"u1", "u2"}
        /\ DOMAIN load_world(store, req[t].world).active_players = {"u2"}

\* log is what is left of `full` after dropping its oldest entries down to cap
KeepsNewest(log, full, cap) ==
    /\ Len(log) = Min(cap, Len(full))
    /\ log = SubSeq(full, Len(full) - Len(log) + 1, Len(full))

\* C13: every persisted snapshot holds at most 50 history_summaries, 200
\* chat_log and 100 story_log entries, and each append (the command of a
\* turn, a chat message, the story of a full turn) keeps the most recent
\* entries in append order, dropping the oldest beyond the cap.
C13_LogsBounded ==
    /\ \A w \in Worlds :
          store[w].exists =>
              /\ Len(load_world(store, w).history_summaries) <= HistoryCap
              /\ Len(load_world(store, w).chat_log) <= ChatCap
              /\ Len(load_world(store, w).story_log) <= StoryCap
    /\ \A t \in Threads :
          /\ (IsTurn(t) /\ pc[t] = "interpret" /\ Strip(req[t].message) # "") =>
                KeepsNewest(ws[t].history_summaries,
                            Append(pre[t].history_summaries,
                                   <<req[t].user, Strip(req[t].message)>>),
                            HistoryCap)
          /\ (req[t].op = "turn" /\ pc[t] = "persist") =>
                /\ Len(ws[t].story_log) = Min(StoryCap, Len(pre[t].story_log) + 1)
                /\ ws[t].story_log[Len(ws[t].story_log)].text = ws[t].last_scene_text
          /\ (req[t].op = "chat" /\ saves[t] = 1) =>
                KeepsNewest(ws[t].chat_log,
                            Append(pre[t].chat_log, <<req[t].user, req[t].message>>),
                            ChatCap)

\* the Resolve stage of t has just run the single action TALK whose target
\* names the player record of u, another user than the acting one, who was
\* not in active_players
TalkedAtAbsentPlayer(t, u) ==
    /\ IsTurn(t) /\ stages[t] # <<>> /\ Last(stages[t]) = "Resolve"
    /\ Len(actions[t]) = 1 /\ actions[t][1].type = "TALK"
    /\ u \in DOMAIN pre[t].players /\ u # req[t].user
    /\ actions[t][1].target_character_id
          \in {pre[t].players[u].character_id, pre[t].players[u].name,
               pre[t].players[u].user_id}
    /\ u \notin DOMAIN pre[t].active_players

\* C14: a TALK whose target matches a known other player who is not in
\* active_players yields the "not around right now" notice for that player,
\* makes no call to the dialogue collaborator, and leaves every character
\* (mood, loyalty) and every player's stats as they were.
C14_TalkAtAbsentPlayer ==
    \A t \in Threads : \A u \in Users :
        TalkedAtAbsentPlayer(t, u) =>
            /\ notes[t] = <<<<"not_around", pre[t].players[u].name>>>>
            /\ \A i \in 1..Len(calls[t]) : calls[t][i].agent # "dialogue_weaver"
            /\ ws[t].characters = pre[t].characters
            /\ \A p \in DOMAIN pre[t].players :
                  ws[t].players[p].stats = pre[t].players[p].stats

\* C14 witness: u1 has called out for u2, who had left, in a world that
\* also holds a character under the id u2_char; the utterance is in chat_log.
C14_Witness ==
    \E t \in Threads :
        /\ TalkedAtAbsentPlayer(t, "u2")
        /\ "u2_char" \in DOMAIN ws[t].characters
        /\ actions[t][1].target_character_id = "u2_char"
        /\ notes[t] = <<<<"not_around", "u2">>>>
        /\ Len(ws[t].chat_log) = Len(pre[t].chat_log) + 1

\* the indices of the MOVE actions of acts whose target is a region of w
ValidMoves(w, acts) ==
    {i \in 1..Len(acts) :
        /\ acts[i].type = "MOVE"
        /\ \E k \in 1..Len(w.regions) : w.regions[k] = acts[i].target_region_id}

\* the location of a player at `from` after the MOVEs of acts
ExpectedLocation(w, acts, from) ==
    IF ValidMoves(w, acts) = {} THEN from
    ELSE acts[CHOOSE i \in ValidMoves(w, acts) :
                 \A j \in ValidMoves(w, acts) : j <= i].target_region_id

\* C15: after Resolve the acting player is in the target region of the
\* (last) MOVE whose target is a region of the world, and where they were
\* when no MOVE names such a region; nobody else has moved; the stage does
\* not raise, and the turn persists that location.
C15_MoveToKnownRegionOnly ==
    \A t \in Threads :
        LET u == req[t].user
        IN  /\ (IsTurn(t) /\ stages[t] # <<>> /\ Last(stages[t]) = "Resolve") =>
                  /\ pc[t] = "advance"
                  /\ ws[t].players[u].location_region_id =
                        ExpectedLocation(pre[t], actions[t],
                                         pre[t].players[u].location_region_id)
                  /\ \A p \in (DOMAIN pre[t].players) \ {u} :
                        ws[t].players[p] = pre[t].players[p]
            /\ (IsTurn(t) /\ Finished(t)) =>
                  /\ saves[t] = 1
                  /\ ws[t].players[u].location_region_id \in
                        {ws[t].regions[k] : k \in 1..Len(ws[t].regions)}

\* C15 witness: a player who stood in the forest has been sent to a region
\* the world does not have and is still in the forest; the turn saved that.
C15_Witness ==
    \E t \in Threads :
        /\ IsTurn(t) /\ saves[t] = 1 /\ base[t] # NoWorld
        /\ req[t].user \in DOMAIN base[t].players
        /\ base[t].players[req[t].user].location_region_id = "forest"
        /\ actions[t] = <<Action("MOVE", "atlantis", None, EmptyObj)>>
        /\ load_world(store, req[t].world).players[req[t].user].location_region_id
              = "forest"

\* the request of t has just created its world from a world architect
\* answer without regions
CreatedWithoutRegions(t) ==
    /\ IsTurn(t) /\ pc[t] = "presence" /\ base[t] = NoWorld
    /\ calls[t] # <<>> /\ calls[t][1].agent = "world_architect"
    /\ Get(calls[t][1].result, "regions", <<>>) = <<>>

\* C16: a world created from a world architect answer without regions has
\* exactly one region, glass_whale_bay of type bay, and its only player, the
\* acting user, stands there with courage = empathy = cunning = 0.5.
C16_FallbackRegionAndPlayer ==
    \A t \in Threads :
        CreatedWithoutRegions(t) =>
            LET u == req[t].user
            IN  /\ ws[t].regions = <<"glass_whale_bay">>
                /\ Len(regions_list(calls[t][1].result)) = 1
                /\ regions_list(calls[t][1].result)[1].type = "bay"
                /\ DOMAIN ws[t].players = {u}
                /\ ws[t].players[u].location_region_id = "glass_whale_bay"
                /\ ws[t].players[u].stats =
                      [n \in {"courage", "empathy", "cunning"} |-> Half]

\* C16 witness: the world architect answered with an empty region list (and
\* a starter quest); the world has the fallback region and the first player.
C16_Witness ==
    \E t \in Threads :
        /\ CreatedWithoutRegions(t)
        /\ "regions" \in DOMAIN calls[t][1].result
        /\ DOMAIN ws[t].quests = {"main_1"}
        /\ ws[t].regions = <<"glass_whale_bay">>
        /\ ws[t].players[req[t].user].location_region_id = "glass_whale_bay"

\* C17: a turn whose actions are WAIT and whose collaborators return empty
\* deltas persists a snapshot whose tick is the loaded tick plus 1 and whose
\* four metrics, quest map, and every loaded player's location and stats are
\* those of the snapshot it loaded.
C17_WaitChangesOnlyTick ==
    \A t \in Threads :
        (IsTurn(t) /\ saves[t] = 1 /\ base[t] # NoWorld) =>
            LET after == load_world(store, req[t].world)
            IN  /\ \A i \in 1..Len(actions[t]) : actions[t][i].type = "WAIT"
                /\ after.tick = base[t].tick + 1
                /\ after.metrics = base[t].metrics
                /\ after.quests = base[t].quests
                /\ \A p \in DOMAIN base[t].players :
                      /\ after.players[p].location_region_id
                            = base[t].players[p].location_region_id
                      /\ after.players[p].stats = base[t].players[p].stats

\* C17 witness: the second of two consecutive waiting turns, with an event
\* and a quest notification, in a world holding quests: tick 1 became 2.
C17_Witness ==
    \E t \in Threads :
        /\ IsTurn(t) /\ saves[t] = 1 /\ base[t] # NoWorld
        /\ base[t].tick = 1
        /\ DOMAIN base[t].quests = {"main_1", "side_1"}
        /\ load_world(store, req[t].world).tick = 2
        /\ load_world(store, req[t].world).last_events # <<>>
        /\ \E i \in 1..Len(calls[t]) :
              calls[t][i].agent = "quest_master"
                  /\ "notifications" \in DOMAIN calls[t][i].result

ActionOnlyOrder == <<"Interpret", "Resolve", "Advance", "QuestContinuity", "Persist">>

\* last_scene_text and story_log of the snapshot the request loaded, those of
\* a new world when there was none
LoadedStory(t) ==
    IF base[t] = NoWorld THEN [last_scene_text |-> NoText, story_log |-> <<>>]
    ELSE [last_scene_text |-> base[t].last_scene_text, story_log |-> base[t].story_log]

\* C18: an action-only turn runs Interpret, Resolve, Advance, Quest
\* Continuity, Persist in this order and never Narrate: the stages run so far
\* are a prefix of that order, and a turn that has left the pipeline has run
\* all five and saved once; it makes no call to the story conductor and its
\* world state keeps last_scene_text and story_log as loaded; the snapshot
\* it persists is open with the user active, ends its history with the
\* command, and has the tick advanced by the turn's num_ticks, as after a
\* full turn.
C18_ActionOnlySkipsNarrate ==
    \A t \in Threads :
        req[t].op = "action" =>
            /\ Len(stages[t]) <= Len(ActionOnlyOrder)
            /\ stages[t] = SubSeq(ActionOnlyOrder, 1, Len(stages[t]))
            /\ \A i \in 1..Len(calls[t]) : calls[t][i].agent # "story_conductor"
            /\ ws[t] # NoWorld =>
                  /\ ws[t].last_scene_text = LoadedStory(t).last_scene_text
                  /\ ws[t].story_log = LoadedStory(t).story_log
            /\ Finished(t) => (stages[t] = ActionOnlyOrder /\ saves[t] = 1)
            /\ saves[t] = 1 =>
                  LET after == load_world(store, req[t].world)
                  IN  /\ after.last_scene_text = LoadedStory(t).last_scene_text
                      /\ after.story_log = LoadedStory(t).story_log
                      /\ after.is_open
                      /\ req[t].user \in DOMAIN after.active_players
                      /\ Last(after.history_summaries)
                            = <<req[t].user, Strip(req[t].message)>>
                      /\ after.tick = TickBefore(t) + num_ticks[t]

\* C19: get_state_view leaves the store as it is, also when its in-memory
\* prune removed timed-out players; the snapshot a turn or a leave saves
\* holds no timed-out entry in active_players (their prune is persisted).
C19_ReadNeverWrites ==
    [][ \A t \in Threads :
          /\ (pc[t] = "view" /\ pc'[t] # "view") => store' = store
          /\ (pc[t] \in {"persist", "leave_save"} /\ pc'[t] # pc[t]) =>
                Stale(load_world(store', req[t].world), now') = {}
      ]_vars

\* C19 witness: a read has returned a map without active players while the
\* persisted snapshot is still open and still lists the timed-out player.
C19_Witness ==
    \E t \in Threads :
        /\ req[t].op = "state" /\ pc[t] = "release"
        /\ store[req[t].world].exists
        /\ out[t].visual.kind = "map" /\ out[t].visual.active = {}
        /\ Stale(load_world(store, req[t].world), now) # {}
        /\ load_world(store, req[t].world).is_open

\* C20: a read of a world id without snapshot returns the empty visual and
\* the "does not exist yet" story, leaves the store without that snapshot
\* (so without any player record), and its request is answered with 200.
C20_ReadUnknownWorld ==
    [][ \A t \in Threads :
          /\ (req[t].op = "state" /\ pc[t] = "view" /\ pc'[t] # "view"
                 /\ ~store[req[t].world].exists) =>
                /\ pc'[t] = "release"
                /\ out'[t].visual = EmptyText
                /\ out'[t].story = NotExistText
                /\ store' = store
          /\ (req[t].op = "state" /\ pc[t] = "release" /\ pc'[t] # "release") =>
                out'[t].status = 200
      ]_vars

\* C20 witness: a read of world w1 has returned while w1 has no snapshot.
C20_Witness ==
    \E t \in Threads :
        /\ req[t].op = "state" /\ pc[t] = "respond" /\ out[t].status = 200
        /\ ~store[req[t].world].exists
        /\ out[t].story = NotExistText /\ out[t].visual = EmptyText

\* the request of t holds a world it generated and has not saved yet
HoldsGeneratedWorld(t) ==
    /\ IsTurn(t) /\ base[t] = NoWorld /\ ws[t] # NoWorld /\ saves[t] = 0
    /\ \E i \in 1..Len(calls[t]) : calls[t][i].agent = "world_architect"

\* C21: the world of a world id is generated at most once: no two requests
\* hold a generated world for the same id, and no request holds a generated,
\* unsaved world for an id whose snapshot has been persisted (its save would
\* replace the regions and characters of that snapshot).
C21_WorldGeneratedOnce ==
    \A t1, t2 \in Threads :
        HoldsGeneratedWorld(t1) =>
            /\ ~store[req[t1].world].exists
            /\ (t2 # t1 /\ req[t2].world = req[t1].world) => ~HoldsGeneratedWorld(t2)

\* C22: a turn that persists leaves a player record for its user in the
\* snapshot, and a user id that is a key of players in a persisted snapshot
\* is a key of players in every later persisted snapshot of that world.
C22_PlayerRecordsPersist ==
    [][ /\ \A t \in Threads :
              (IsTurn(t) /\ saves[t] = 0 /\ saves'[t] = 1) =>
                  req[t].user \in DOMAIN load_world(store', req[t].world).players
        /\ \A w \in Worlds :
              store[w].exists =>
                  /\ store'[w].exists
                  /\ DOMAIN load_world(store, w).players
                         \subseteq DOMAIN load_world(store', w).players
      ]_vars

\* thread t waits for a lock that another request holds
BlockedBy(t, o) ==
    /\ pc[t] = "acquire"
    /\ o # t
    /\ lock_owner[lock[t]] = o

\* C23: a request is only ever kept waiting by a request on the same world
\* id: the guard of one world never blocks an operation on another world.
C23_GuardsAreIndependent ==
    \A t, o \in Threads : BlockedBy(t, o) => req[o].world = req[t].world

\* C23 witness: a turn on w2 has run all its stages and persisted while a
\* turn on w1 is mid-pipeline, each holding the guard of its own world.
C23_Witness ==
    \E a, b \in Threads :
        /\ IsTurn(a) /\ req[a].world = "w1" /\ pc[a] = "advance"
        /\ lock_owner[lock[a]] = a
        /\ req[b].op = "turn" /\ req[b].world = "w2" /\ pc[b] = "view"
        /\ lock_owner[lock[b]] = b
        /\ stages[b] = PipelineOrder /\ saves[b] = 1
        /\ store["w2"].exists /\ ~store["w1"].exists

\* C24: the state view a full turn returns is computed from the snapshot
\* that same turn saved: its story is the story text the turn produced.
C24_TurnReadsItsOwnSave ==
    \A t \in Threads :
        (req[t].op = "turn" /\ pc[t] = "release" /\ saves[t] = 1) =>
            out[t].story = ws[t].last_scene_text

\* the positions in the main quest chain of the main-arc ids among `ids`
MainArc(ids) == {n \in 1..Len(MainArcIds) : MainArcIds[n] \in ids}

\* positions 1..k for some k >= 0: a prefix of the chain without a gap
Contiguous(positions) == \E k \in 0..Len(MainArcIds) : positions = 1..k

\* the request of t has just generated its world
JustGenerated(t) ==
    /\ IsTurn(t) /\ pc[t] = "presence" /\ base[t] = NoWorld
    /\ calls[t] # <<>> /\ calls[t][1].agent = "world_architect"

\* C25: after world generation and after every Quest Continuity step the
\* main-arc quest ids of the quest map are main_1 .. main_k without a gap.
C25_MainArcContiguous ==
    \A t \in Threads :
        (JustGenerated(t) \/ JustRanQuestContinuity(t)) =>
            Contiguous(MainArc(DOMAIN ws[t].quests))

\* C25 amended: the main-arc quest ids of the quest map are exactly the ones
\* the collaborator supplied: those of starter_quests after world generation,
\* those of the returned list after a Quest Continuity step that returned at
\* least one id (those before the step otherwise).  They are main_1 .. main_k
\* without a gap when the supplied ids are, and only then.
C25_MainArcAsSupplied ==
    \A t \in Threads :
        /\ JustGenerated(t) =>
              MainArc(DOMAIN ws[t].quests)
                 = MainArc(ReturnedIds(Get(calls[t][1].result, "starter_quests", <<>>)))
        /\ JustRanQuestContinuity(t) =>
              LET ids == ReturnedIds(Get(Last(calls[t]).result, "quests", <<>>))
              IN  MainArc(DOMAIN ws[t].quests)
                     = MainArc(IF ids # {} THEN ids ELSE DOMAIN pre[t].quests)

\* C25 witness: a Quest Continuity step whose collaborator supplied main_2
\* without main_1 has been persisted: the quest map holds a main-arc quest
\* and its main-arc ids are not a gapless prefix.
C25_Witness ==
    \E t \in Threads :
        /\ IsTurn(t) /\ saves[t] = 1
        /\ \E i \in 1..Len(calls[t]) :
              /\ calls[t][i].agent = "quest_master"
              /\ MainArc(ReturnedIds(Get(calls[t][i].result, "quests", <<>>))) = {2}
        /\ MainArc(DOMAIN load_world(store, req[t].world).quests) = {2}

\* C26: the persisted tick of a world is never negative and never decreases
\* from one persisted snapshot to the next.
C26_TickNeverDecreases ==
    [][ \A w \in Worlds :
          /\ store'[w].exists => load_world(store', w).tick >= 0
          /\ store[w].exists =>
                /\ store'[w].exists
                /\ load_world(store', w).tick >= load_world(store, w).tick
      ]_vars

\* the entries of active_players of w that prune keeps at time tm: a numeric
\* timestamp whose age is at most the idle timeout
Fresh(w, tm) ==
    {u \in DOMAIN w.active_players :
        /\ w.active_players[u].tag = "num"
        /\ tm - w.active_players[u].v <= SESSION_TIMEOUT_SECONDS}

\* leave_world by a user without an entry in active_players saves the
\* snapshot as prune left it: the step that saves the pruned snapshot
PruneSaved(t) ==
    /\ pc[t] = "leave_save" /\ pc'[t] = "release"
    /\ req[t].user \notin DOMAIN ws[t].active_players

\* the pruned snapshot holds exactly the fresh entries of the loaded one,
\* each with its timestamp
PrunedExactly(before, after, tm) ==
    /\ DOMAIN after.active_players = Fresh(before, tm)
    /\ \A u \in Fresh(before, tm) : after.active_players[u] = before.active_players[u]

TalkResolved(t) ==
    /\ IsTurn(t) /\ stages[t] # <<>> /\ Last(stages[t]) = "Resolve"
    /\ Len(actions[t]) = 1 /\ actions[t][1].type = "TALK"

\* the players other than the acting one that the TALK target of t names
OtherPlayersNamed(t) ==
    {u \in (DOMAIN pre[t].players) \ {req[t].user} :
        actions[t][1].target_character_id
            \in {pre[t].players[u].character_id, pre[t].players[u].name,
                 pre[t].players[u].user_id}}

\* C28: a TALK is resolved as player-to-player talk (a notice, no call of
\* the dialogue collaborator) exactly when its target is the character id,
\* name or user id of a player other than the acting one; in every other
\* case, a target naming the acting player included, it is resolved as NPC
\* dialogue and the dialogue collaborator is called.
C28_TalkAtOtherPlayerOnly ==
    \A t \in Threads :
        TalkResolved(t) =>
            LET noticed   == \E i \in 1..Len(notes[t]) :
                                notes[t][i][1] \in {"can_respond", "not_around"}
                dialogued == \E i \in 1..Len(calls[t]) :
                                calls[t][i].agent = "dialogue_weaver"
            IN  IF OtherPlayersNamed(t) # {}
                THEN noticed /\ ~dialogued
                ELSE dialogued /\ ~noticed

\* the positions of the FAST_FORWARD actions of an action list
FastForwards(acts) == {i \in 1..Len(acts) : acts[i].type = "FAST_FORWARD"}

\* the num_ticks of a turn whose only action is the last FAST_FORWARD of acts
LastAlone(acts) == ExpectedTicks(<<acts[LastFastForward(acts)]>>)

\* C29: when the action list holds several FAST_FORWARD actions, the
\* num_ticks handed to Advance and added to the tick is the one of the last
\* FAST_FORWARD in list order, whatever the earlier ones asked for and
\* whatever other actions follow it.
C29_LastFastForwardWins ==
    \A t \in Threads :
        (IsTurn(t) /\ Cardinality(FastForwards(actions[t])) >= 2) =>
            /\ ("Resolve" \in {stages[t][i] : i \in 1..Len(stages[t])}
                  => num_ticks[t] = LastAlone(actions[t]))
            /\ \A i \in 1..Len(calls[t]) :
                  calls[t][i].agent = "event_engine" =>
                      calls[t][i].num_ticks = LastAlone(actions[t])
            /\ AdvanceDone(t) => ws[t].tick = TickBefore(t) + LastAlone(actions[t])

\* C29 witness: a turn whose actions are FAST_FORWARD 5, FAST_FORWARD 2 and
\* WAIT has persisted a tick two past the tick it loaded.
C29_Witness ==
    \E t \in Threads :
        /\ IsTurn(t) /\ saves[t] = 1 /\ Len(actions[t]) = 3
        /\ FastForwards(actions[t]) = {1, 2}
        /\ ExpectedTicks(<<actions[t][1]>>) = 5
        /\ ExpectedTicks(<<actions[t][2]>>) = 2
        /\ actions[t][3].type = "WAIT"
        /\ load_world(store, req[t].world).tick = TickBefore(t) + 2

\* C30: the loyalty of every character is within [0, 1] in every snapshot,
\* held by a running request or persisted: after world generation from any
\* starter characters and after every NPC TALK that applies a loyalty delta.
C30_LoyaltyInUnitInterval ==
    /\ \A t \in Threads :
          ws[t] # NoWorld =>
              \A c \in DOMAIN ws[t].characters : InUnit(ws[t].characters[c].loyalty)
    /\ \A w \in Worlds :
          store[w].exists =>
              \A c \in DOMAIN load_world(store, w).characters :
                  InUnit(load_world(store, w).characters[c].loyalty)

\* the player_stats_delta the stage that t has just run applied to the
\* acting player
StatsDeltaApplied(t) ==
    IF stages[t] = <<>> \/ calls[t] = <<>> \/ pc[t] = "raised" THEN EmptyObj
    ELSE IF Last(stages[t]) = "Resolve" /\ Last(calls[t]).agent = "dialogue_weaver"
    THEN Get(Get(Last(calls[t]).result, "world_effects", EmptyObj),
             "player_stats_delta", EmptyObj)
    ELSE IF Last(stages[t]) \in {"Advance", "QuestContinuity"}
    THEN Get(Last(calls[t]).result, "player_stats_delta", EmptyObj)
    ELSE EmptyObj

\* C31: every value of every player's stats is within [0,1], in the world a
\* request holds and in every persisted snapshot, whatever stat deltas the
\* dialogue, event and quest stages applied; and a numeric delta for a stat
\* name the player did not have yet is applied to the default 0.5.
C31_StatsInUnitInterval ==
    /\ \A t \in Threads :
          ws[t] # NoWorld =>
              /\ \A u \in DOMAIN ws[t].players :
                    \A n \in DOMAIN ws[t].players[u].stats :
                        InUnit(ws[t].players[u].stats[n])
              /\ \A n \in DOMAIN StatsDeltaApplied(t) :
                    (StatsDeltaApplied(t)[n].tag = "num"
                        /\ n \notin DOMAIN pre[t].players[req[t].user].stats) =>
                       ws[t].players[req[t].user].stats[n]
                          = Max(0, Min(One, Half + StatsDeltaApplied(t)[n].v))
    /\ \A w \in Worlds :
          store[w].exists =>
              \A u \in DOMAIN load_world(store, w).players :
                  \A n \in DOMAIN load_world(store, w).players[u].stats :
                      InUnit(load_world(store, w).players[u].stats[n])

\* C31 witness: a turn has persisted the player's stats after the event
\* engine lowered courage by 2.0 and the quest master raised cunning by 2.0
\* and luck, a stat the player did not have, by 0.7 from an event-engine
\* value of 0: courage 0, cunning 1, luck 0.7.
C31_Witness ==
    \E t \in Threads :
        /\ IsTurn(t) /\ saves[t] = 1
        /\ "luck" \notin DOMAIN (IF base[t] = NoWorld THEN EmptyObj
                                  ELSE base[t].players[req[t].user].stats)
        /\ LET st == load_world(store, req[t].world).players[req[t].user].stats
           IN  /\ st["courage"] = 0 /\ st["cunning"] = One /\ st["luck"] = 7

InertTypes == {"EXPLORE", "WAIT", "WORLD_EDIT", "SHOW_QUESTS"}

Effective(a) == a.type \notin InertTypes

\* the calls of the dialogue collaborator among the calls of t
DialogueCalls(t) == {i \in 1..Len(calls[t]) : calls[t][i].agent = "dialogue_weaver"}

\* the answer the dialogue collaborator gave t (the empty one if not called)
DialogueAnswer(t) ==
    IF DialogueCalls(t) = {} THEN EmptyObj
    ELSE calls[t][CHOOSE i \in DialogueCalls(t) : TRUE].result

\* C32: at the Resolve stage an action of type EXPLORE, WAIT, WORLD_EDIT or
\* SHOW_QUESTS changes nothing and calls no collaborator: the stage leaves
\* the world, num_ticks, the notes and the dialogue calls as the action list
\* without these actions leaves them, and a list of such actions only leaves
\* the world as it was, num_ticks at 1, and calls nobody.
C32_InertActions ==
    \A t \in Threads :
        (IsTurn(t) /\ stages[t] # <<>> /\ Last(stages[t]) = "Resolve") =>
            LET r == resolve_actions(
                        [w |-> pre[t], num_ticks |-> 1, snippets |-> <<>>, calls |-> <<>>],
                        req[t].user, SelectSeq(actions[t], Effective), DialogueAnswer(t))
            IN  /\ ws[t] = r.w
                /\ num_ticks[t] = r.num_ticks
                /\ notes[t] = r.snippets
                /\ Cardinality(DialogueCalls(t)) = Len(r.calls)
                /\ SelectSeq(actions[t], Effective) = <<>> =>
                      /\ ws[t] = pre[t] /\ num_ticks[t] = 1 /\ notes[t] = <<>>
                      /\ DialogueCalls(t) = {}

\* C32 witness: Resolve has run MOVE to the forest followed by a WORLD_EDIT
\* that names the harbor and five days: the player is in the forest and
\* num_ticks is 1.
C32_Witness ==
    \E t \in Threads :
        /\ IsTurn(t) /\ stages[t] # <<>> /\ Last(stages[t]) = "Resolve"
        /\ Len(actions[t]) = 2 /\ actions[t][2].type = "WORLD_EDIT"
        /\ actions[t][2].target_region_id = "harbor"
        /\ pre[t].players[req[t].user].location_region_id = "harbor"
        /\ ws[t].players[req[t].user].location_region_id = "forest"
        /\ num_ticks[t] = 1

\* "At most 3 events per call", the event collaborator's contract
MaxEvents == 3

\* last_events of the world of t holds the events of the turn's own Advance
\* step, in the order returned, and nothing of an earlier turn
OnlyThisTurnsEvents(t) ==
    (IsTurn(t) /\ AdvanceDone(t)) =>
        \E i \in 1..Len(calls[t]) :
            /\ calls[t][i].agent = "event_engine"
            /\ LET ev == Get(calls[t][i].result, "events", <<>>)
               IN  /\ Len(ws[t].last_events) = Len(ev)
                   /\ \A k \in 1..Len(ev) :
                         /\ ws[t].last_events[k].id = ev[k]["id"]
                         /\ ws[t].last_events[k].tick = ws[t].tick

\* C33: one Advance step records at most 3 events in last_events, whatever
\* number of events the collaborator returns, and last_events holds only the
\* events of the most recent turn.
C33_EventsBounded ==
    /\ \A t \in Threads :
          /\ ws[t] # NoWorld => Len(ws[t].last_events) <= MaxEvents
          /\ OnlyThisTurnsEvents(t)
    /\ \A w \in Worlds :
          store[w].exists => Len(load_world(store, w).last_events) <= MaxEvents

\* the entries with an id of the starter quests, of the starter characters
\* and of the quest master's list have been stored by the stage that t has
\* just run
EntriesWithIdStored(t) ==
    /\ JustGenerated(t) =>
          /\ DOMAIN ws[t].quests
                = ReturnedIds(Get(calls[t][1].result, "starter_quests", <<>>))
          /\ DOMAIN ws[t].characters
                = ReturnedIds(Get(calls[t][1].result, "starter_characters", <<>>))
    /\ (JustRanQuestContinuity(t)
          /\ ReturnedIds(Get(Last(calls[t]).result, "quests", <<>>)) # {}) =>
          DOMAIN ws[t].quests = ReturnedIds(Get(Last(calls[t]).result, "quests", <<>>))

\* the events with an id have been recorded by the Advance step of t
EventsWithIdStored(t) ==
    (IsTurn(t) /\ stages[t] # <<>> /\ Last(stages[t]) = "Advance") =>
        {ws[t].last_events[k].id : k \in 1..Len(ws[t].last_events)}
            = ReturnedIds(Get(Last(calls[t]).result, "events", <<>>))

\* C34: a collaborator list entry without id (an event, a quest, a starter
\* quest, a starter character) is skipped: no stage raises, the remaining
\* entries are stored, and the turn reaches Persist.
C34_EntryWithoutIdSkipped ==
    \A t \in Threads :
        IsTurn(t) =>
            /\ pc[t] # "raised"
            /\ Finished(t) => saves[t] = 1
            /\ EntriesWithIdStored(t)
            /\ EventsWithIdStored(t)

\* C35: the snapshot a full or action-only turn of user u persists has u in
\* active_players, with a numeric timestamp, and is_open = true, however
\* long u was idle before the turn.
C35_TurnKeepsActingUser ==
    [][ \A t \in Threads :
          (IsTurn(t) /\ pc[t] = "persist" /\ pc'[t] # "persist") =>
              LET saved == load_world(store', req[t].world)
              IN  /\ req[t].user \in DOMAIN saved.active_players
                  /\ saved.active_players[req[t].user].tag = "num"
                  /\ saved.active_players[req[t].user].v <= now
                  /\ saved.is_open
      ]_vars

\* C35 witness: u1 was idle for longer than the timeout, then took a turn:
\* the persisted snapshot is open and u1 is active with a new timestamp.
C35_Witness ==
    \E t \in Threads :
        /\ IsTurn(t) /\ saves[t] = 1 /\ req[t].user = "u1"
        /\ base[t] # NoWorld
        /\ "u1" \in DOMAIN base[t].active_players
        /\ now - base[t].active_players["u1"].v > SESSION_TIMEOUT_SECONDS
        /\ "u1" \in DOMAIN load_world(store, req[t].world).active_players
        /\ load_world(store, req[t].world).active_players["u1"].v
              > base[t].active_players["u1"].v + SESSION_TIMEOUT_SECONDS
        /\ load_world(store, req[t].world).is_open

\* the fields of a snapshot that leave does not touch
LeaveFrame(w) ==
    <<w.players, w.tick, w.metrics, w.quests, w.regions, w.characters,
      w.history_summaries, w.chat_log, w.story_log, w.last_events, w.last_scene_text>>

\* C36: leave(user) removes from active_players the named user and the
\* entries that timed out, and no other; it leaves players, tick, metrics,
\* quests, regions, characters and the logs as loaded and creates no player
\* record; leaving again at once gives the same snapshot; and a leave on a
\* world id without snapshot writes nothing.
C36_LeaveFrame ==
    [][ \A t \in Threads :
          /\ (pc[t] = "leave_save" /\ pc'[t] = "release") =>
                LET saved == load_world(store', req[t].world)
                IN  /\ DOMAIN saved.active_players
                          = (DOMAIN ws[t].active_players) \ ({req[t].user} \cup Stale(ws[t], now))
                    /\ \A u \in DOMAIN saved.active_players :
                          saved.active_players[u] = ws[t].active_players[u]
                    /\ LeaveFrame(saved) = LeaveFrame(ws[t])
                    /\ leave(saved, req[t].user, now) = saved
          /\ (req[t].op = "leave" /\ ~store[req[t].world].exists) => store' = store
      ]_vars

\* C36 witness: u1 has left a world in which u2 had timed out and u1 had
\* not: the persisted snapshot has no active player, is closed, and still
\* holds both player records.
C36_Witness ==
    \E t \in Threads :
        /\ req[t].op = "leave" /\ req[t].user = "u1" /\ saves[t] = 1
        /\ DOMAIN base[t].active_players = {"u1", "u2"}
        /\ Stale(base[t], now) = {"u2"}
        /\ DOMAIN load_world(store, req[t].world).active_players = {}
        /\ DOMAIN load_world(store, req[t].world).players = {"u1", "u2"}
        /\ ~load_world(store, req[t].world).is_open

\* the turn of t has raised before Persist
RaisedBeforePersist(t) ==
    /\ IsTurn(t) /\ saves[t] = 0
    /\ pc[t] = "raised" \/ (pc[t] = "respond" /\ out[t].status = 500)

\* C37: when a full or action-only turn raises before Persist nothing of it
\* is saved: the persisted snapshot of the world is the one the turn loaded,
\* and a world id that had no snapshot still has none.
C37_RaisedTurnSavesNothing ==
    \A t \in Threads :
        RaisedBeforePersist(t) =>
            /\ load_world(store, req[t].world) = base[t]
            /\ base[t] = NoWorld => ~store[req[t].world].exists

\* C37 witness: a turn on an existing world has raised in Advance after it
\* had marked its user active and logged the command in its own copy of the
\* world; the persisted snapshot is still the one it loaded.
C37_Witness ==
    \E t \in Threads :
        /\ RaisedBeforePersist(t) /\ pc[t] = "raised"
        /\ base[t] # NoWorld
        /\ Last(stages[t]) = "Advance"
        /\ ws[t].history_summaries # base[t].history_summaries
        /\ load_world(store, req[t].world) = base[t]

\* thread t holds a world's guard
HoldsGuard(t) == \E l \in DOMAIN lock_owner : lock_owner[l] = t

\* C38: a request that holds a world's guard eventually releases it, also
\* when its pipeline raised, and a request waiting for the guard eventually
\* holds it: no request waits forever.
C38_GuardReleased ==
    \A t \in Threads :
        /\ HoldsGuard(t) ~> ~HoldsGuard(t)
        /\ (pc[t] = "acquire") ~> HoldsGuard(t)

\* C38 witness: a turn has raised inside the guarded section, still holding
\* the guard, while the other thread's request waits for that same guard.
C38_Witness ==
    \E t, o \in Threads :
        /\ pc[t] = "raised" /\ HoldsGuard(t)
        /\ pc[o] = "acquire" /\ lock[o] = lock[t]

\* the ids of the world's regions
RegionIds(w) == {w.regions[k] : k \in 1..Len(w.regions)}

\* every player of the world stands in one of its regions
PlayersInRegions(w) ==
    \A p \in DOMAIN w.players : w.players[p].location_region_id \in RegionIds(w)

\* C39: in every state, each player of a world, in the saved snapshot and in
\* the world a request is working on, stands in a region of that world; the
\* world has at least one region, and a request working on a loaded world
\* has the regions it loaded.
C39_PlayersStandInRegions ==
    /\ \A w \in Worlds :
          load_world(store, w) # NoWorld =>
             /\ RegionIds(load_world(store, w)) # {}
             /\ PlayersInRegions(load_world(store, w))
    /\ \A t \in Threads :
          ws[t] # NoWorld =>
             /\ RegionIds(ws[t]) # {}
             /\ PlayersInRegions(ws[t])
             /\ base[t] # NoWorld => ws[t].regions = base[t].regions

\* C39 witness: the saved world has one player who walked to the forest and
\* one who joined later, stands in the first region and has just asked to go
\* to a region the world lacks.
C39_Witness ==
    \E t \in Threads, w \in Worlds :
        /\ IsTurn(t) /\ saves[t] = 1 /\ req[t].world = w
        /\ base[t] # NoWorld /\ Len(base[t].regions) = 2
        /\ req[t].user \notin DOMAIN base[t].players
        /\ \E i \in 1..Len(actions[t]) :
              /\ actions[t][i].type = "MOVE"
              /\ actions[t][i].target_region_id \notin RegionIds(ws[t])
        /\ LET saved == load_world(store, w)
           IN  /\ saved.players[req[t].user].location_region_id = saved.regions[1]
               /\ \E p \in DOMAIN saved.players :
                     saved.players[p].location_region_id = saved.regions[2]
====
